---- MODULE Spec2Model ----
(***************************************************************************)
(* vroomon: the genotype/phenotype model and the evolutionary engine.      *)
(*                                                                         *)
(* The module holds several state machines over one set of variables, one  *)
(* per part of the program:                                                *)
(*   SpecMutate     one mutation pass (Car.mutate, population.mutate)      *)
(*   SpecMutateFair the same pass with endless inserts and fair draws      *)
(*   SpecReproduce  one call of reproduce (crossover, then mutation)       *)
(*   SpecEvolve     evolve_population inside the generation loop of main   *)
(*   SpecPower      Car.calculate_wheel_power on a powertrain chain        *)
(*   SpecBuild      Car(dna), reset_physics, Wheel and Rectangle mutate    *)
(*   SpecCarMutate  Car(dna) and Car.mutate on the built car               *)
(*   SpecValidate   Rectangle._validate_dimension, Wheel._validate_size    *)
(*   SpecRecord     from_dna and to_dna of one powertrain part             *)
(* Each specification leaves the variables of the other machines alone.    *)
(***************************************************************************)
EXTENDS Integers, Sequences, FiniteSets, TLC

VARIABLES
    \* ---- mutation pass ----
    mut_impl,      \* which mutate runs: "Car.mutate" | "population.mutate" | "none"
    parts_lib,     \* population.mutate: ALL_*_PARTS are the "module" classes or "patched" dummies
    pairs,         \* Car.mutate: list of (frame code, powertrain code)
    m_frame,       \* population.mutate: car.frame ; Car.mutate: new_frame once unzipped
    m_pt,          \* population.mutate: car.powertrain ; Car.mutate: new_pt once unzipped
    i,             \* loop index of the pass (0-based, as in the code)
    m_pc,          \* "idle" | "loop" | "done" | "error"
    m_err,         \* "none" or the exception that ended the pass
    m_last,        \* the branch the last loop iteration took
    m_r,           \* what random.random() gave in that iteration, in hundredths
                   \* (-1: no iteration yet)
    m_out,         \* slots at the head of the list that are not kept in pairs /
                   \* m_frame / m_pt (0 unless the list outgrew MaxLen), counted
                   \* up to MaxOut
    \* ---- reproduction (crossover, then mutation) ----
    heap,          \* the cars alive: heap[id] is the object of car id
    x_impl,        \* "Car.reproduce" | "population.reproduce" | "none"
    car1, car2,    \* ids of the two parents
    mother,        \* id of the parent drawn as mother (0: not drawn yet)
    child,         \* id of the deep copy of the mother being edited (0: none yet)
    x_result,      \* id of the car reproduce returns (0: none yet)
    idx,           \* loop index of the crossover (0-based)
    x_reads,       \* <<list, k>>: each other.<list>[k] the last loop iteration read
    x_writes,      \* <<list, k>>: each child.<list>[k] the last loop iteration assigned
    x_pc,          \* "idle" | "start" | "loop" | "mutate" | "done" | "error"
    x_err,         \* "none" or the exception that ended the call
    \* ---- evolve_population and the generation loop of main ----
    population,    \* list of car ids
    retain_ratio,  \* argument of the call in progress, in hundredths
    mutation_rate, \* argument of the call in progress, in hundredths
    scored,        \* [(car id, score)] sorted by descending score (a local: <<>> once unused)
    survivors,     \* list of car ids kept
    children,      \* list of car ids bred so far
    dna_before,    \* to_dna() of every member when the call started, by car id
    mutated_dna,   \* codes of the car mutate(child) returned in this iteration of the
                   \* breeding loop, as pairs (<<>>: mutate was not called)
    gen,           \* generations completed
    e_pc,          \* "idle" | "ready" | "breed" | "reproduce" | "evolved" |
                   \* "error" (main raised ValueError and ended)
    \* ---- power propagation ----
    pw_chain,      \* self.powertrain: the list of powertrain parts
    pw_pos,        \* the argument wheel_position
    pw_result,     \* what the call returned: [power, torque, via], or <<>>
    pw_pc,         \* "idle" | "call" | "returned"
    \* ---- building a car from DNA, and the built car ----
    b_dna,         \* the DNA document handed to Car(dna)
    b_car,         \* the Car object, <<>> while there is none
    b_err,         \* "none" or the exception build_from_dna raised
    b_pc,          \* "idle" | "new" | "built" | "error"
    b_last,        \* the last operation on the car: "none" | "build" | "reset" | "mutate"
                   \* (Wheel.mutate) | "mutate_rectangle" (Rectangle.mutate) |
                   \* "mutate_car" (Car.mutate)
    b_parent,      \* to_dna() of the car that Car.mutate was called on (<<>>: not called)
    b_calls,       \* the calls of calculate_wheel_power the last build made, in
                   \* order: the wheel_position of each and how it returned
    b_origin,      \* for each slot of the car Car.mutate returned, the slot of the
                   \* parent it was left unchanged from (0: a replacing or inserted pair)
    \* ---- Rectangle._validate_dimension and Wheel._validate_size ----
    v_name,        \* what is validated: "length" | "height" | "size" ("none": idle)
    v_in,          \* the value passed in
    v_out,         \* what the last call returned
    v_pc,          \* "idle" | "new" | "once" | "twice": calls made so far
    \* ---- from_dna and to_dna of one powertrain part ----
    d_rec,         \* the DNA record passed to from_dna (<<>>: idle)
    d_part,        \* the part from_dna returned (<<>>: none yet)
    d_out,         \* what to_dna of the part returned (<<>>: none yet)
    d_pc           \* "idle" | "new" | "part" | "dna" | "again"

mut_vars == <<mut_impl, parts_lib, pairs, m_frame, m_pt, i, m_pc, m_err, m_last, m_r,
              m_out>>
rep_vars == <<x_impl, car1, car2, mother, child, x_result, idx, x_reads, x_writes, x_pc, x_err>>
evo_vars == <<population, retain_ratio, mutation_rate, scored, survivors, children,
              dna_before, mutated_dna, gen, e_pc>>

pow_vars == <<pw_chain, pw_pos, pw_result, pw_pc>>

\* the genetic machines and the phenotype machines
gen_vars == <<mut_vars, heap, rep_vars, evo_vars>>
build_vars == <<b_dna, b_car, b_err, b_pc, b_last, b_parent, b_origin, b_calls>>
val_vars == <<v_name, v_in, v_out, v_pc>>
rec_vars == <<d_rec, d_part, d_out, d_pc>>
phen_vars == <<pow_vars, build_vars, val_vars, rec_vars>>

vars == <<gen_vars, phen_vars>>

\* what the actions of one machine leave alone besides their own variables
not_mut == <<heap, rep_vars, evo_vars, phen_vars>>

-----------------------------------------------------------------------------
(* Bounds of the model *)

\* longest powertrain chain power is propagated through
MaxChain == 3

\* longest frame list and powertrain list of a DNA document
MaxSlots == 2

\* how many times the engine objects of one car are made (build included)
MaxMade == 3

\* longest genome a pass may grow to (insert is cut off at this length)
MaxLen == 3
\* the slots a list has beyond the MaxLen that are followed are counted up to
\* this number (the code only asks whether the list has more than one slot)
MaxOut == 1
\* longest list of codes a Car.mutate pass starts from
MaxCodeLen == 2
\* longest pair of lists a population.mutate pass starts from
MaxListLen == 3
\* longest parent genome of a reproduction
MaxParentLen == 3
\* largest population
MaxPop == 3
\* generations the main loop runs
MaxGenerations == 2
\* dna_length of the initial population
MaxDnaLen == 1

-----------------------------------------------------------------------------
(* Sequence helpers (Python list operations, 0-based index k) *)

\* list.pop(k)
Pop_Nothing(s, k) == s
Pop(s, k) == [n \in 1..(Len(s) - 1) |-> IF n <= k THEN s[n] ELSE s[n + 1]]

\* list.insert(k, x)
Insert(s, k, x) ==
    [n \in 1..(Len(s) + 1) |-> IF n <= k THEN s[n] ELSE IF n = k + 1 THEN x ELSE s[n - 1]]

\* s[k] = x
Put(s, k, x) == [s EXCEPT ![k + 1] = x]

\* all sequences over S of length lo..hi
SeqsOf(S, lo, hi) == UNION {[1..n -> S] : n \in lo..hi}

\* a part as the genetic operators see it: its type code and, to tell slots
\* apart, the car and slot it was made for (0, 0: freshly made)
Part(t, o, a) == [type |-> t, of |-> o, at |-> a]

-----------------------------------------------------------------------------
(* DNA codes *)

FRAME_CODES == {"R", "W"}
POWERTRAIN_CODES == {"C", "D", "G"}

-----------------------------------------------------------------------------
(* Mutation: Car.mutate and population.mutate                              *)
(* Probabilities and draws are in hundredths: r = 12 stands for 0.12.      *)

replace_p == 10
remove_p == 5
insert_p == 5

\* one representative of random.random() per band of the if/elif chain
Draws == {5, 12, 17, 60}

\* `r < replace_p`
DrawReplace(r) == r < replace_p

\* `elif r < replace_p + remove_p and len(pairs) > 1`
DrawRemove_NoLenGuard(r, len) == ~DrawReplace(r) /\ r < replace_p + remove_p
DrawRemove(r, len) == ~DrawReplace(r) /\ r < replace_p + remove_p /\ len > 1

\* `elif r < replace_p + remove_p + insert_p`
DrawInsert(r, len) ==
    ~DrawReplace(r) /\ ~DrawRemove(r, len) /\ r < replace_p + remove_p + insert_p

\* `else`
DrawKeep(r, len) == ~DrawReplace(r) /\ ~DrawRemove(r, len) /\ ~DrawInsert(r, len)

\* population.mutate, remove branch: car.frame.pop(i); car.powertrain.pop(i)
ListRemove_FrameOnly(fr, pt, k) == [frame |-> Pop(fr, k), powertrain |-> pt]
ListRemove(fr, pt, k) == [frame |-> Pop(fr, k), powertrain |-> Pop(pt, k)]

\* population.mutate, insert branch
ListInsert_After(fr, pt, k, f, p) ==
    [frame |-> Insert(fr, k + 1, f), powertrain |-> Insert(pt, k + 1, p)]
ListInsert(fr, pt, k, f, p) == [frame |-> Insert(fr, k, f), powertrain |-> Insert(pt, k, p)]

\* population.mutate, replace branch
ListReplace(fr, pt, k, f, p) == [frame |-> Put(fr, k, f), powertrain |-> Put(pt, k, p)]

\* random.choice(ALL_FRAME_PARTS).from_random(): Rectangle.from_random and
\* Wheel.from_random need (body, pos[, power, torque]), so the call without
\* arguments raises TypeError; the patched test doubles return "F".
FreshFrameParts(lib) == IF lib = "patched" THEN {"F"} ELSE {}
\* random.choice(ALL_POWERTRAIN_PARTS).from_random()
FreshPowertrainParts(lib) == IF lib = "patched" THEN {"P"} ELSE {"Cylinder", "DriveShaft", "GearSet"}

\* Car.mutate: (random.choice(["R","W"]), random.choice(["C","D","G"]))
FreshPairs == FRAME_CODES \X POWERTRAIN_CODES
\* the outcomes of that draw the generation loop is explored with
LoopPairs == {<<"R", "C">>, <<"W", "G">>}

\* length of the genome the pass is working on, as far as it is followed:
\* the slots from the first one kept on, which i counts from
MLen == IF mut_impl = "Car.mutate" THEN Len(pairs) ELSE Len(m_frame)

\* len(pairs) / len(car.frame) as the guard `len > 1` of the remove branch
\* reads it: the slots kept and those before them
LenRead == MLen + m_out

\* zip(*pairs)
Unzip(ps, k) == [n \in 1..Len(ps) |-> ps[n][k]]

\* the checks that end Car.build_from_dna, on the two lists just built:
\* frame empty, powertrain empty, lengths differ
StructureError_NoLengthCheck(frame, powertrain) ==
    IF Len(frame) = 0 THEN "ValueError"
    ELSE IF Len(powertrain) = 0 THEN "ValueError"
    ELSE "none"
StructureError(frame, powertrain) ==
    IF Len(frame) = 0 THEN "ValueError"
    ELSE IF Len(powertrain) = 0 THEN "ValueError"
    ELSE IF Len(frame) # Len(powertrain) THEN "ValueError"
    ELSE "none"

\* what Car.build_from_dna raises on two lists of bare codes
BuildError(frame, powertrain) ==
    IF \E n \in 1..Len(powertrain) : powertrain[n] \notin POWERTRAIN_CODES THEN "ValueError"
    ELSE IF \E n \in 1..Len(frame) : frame[n] \notin FRAME_CODES THEN "ValueError"
    ELSE StructureError(frame, powertrain)

\* Car.mutate's loop from index k on, as one step: every list of pairs the
\* `while i < len(pairs)` loop can end with, the draws r ranging over Draws
\* and the fresh pairs over `fresh`
RECURSIVE MutateOutcomes(_, _, _)
MutateOutcomes(ps, k, fresh) ==
    IF ~(k < Len(ps)) THEN {ps}
    ELSE UNION {
        IF DrawReplace(r)
            THEN UNION {MutateOutcomes(Put(ps, k, fp), k + 1, fresh) : fp \in fresh}
        ELSE IF DrawRemove(r, Len(ps))
            THEN MutateOutcomes(Pop(ps, k), k, fresh)
        ELSE IF DrawInsert(r, Len(ps))
            THEN IF Len(ps) < MaxLen
                 THEN UNION {MutateOutcomes(Insert(ps, k, fp), k + 1, fresh) : fp \in fresh}
                 ELSE {}
        ELSE MutateOutcomes(ps, k + 1, fresh)
        : r \in Draws}

MutIdle ==
    /\ mut_impl = "none" /\ parts_lib = "none" /\ pairs = <<>> /\ m_frame = <<>>
    /\ m_pt = <<>> /\ i = 0 /\ m_pc = "idle" /\ m_err = "none" /\ m_last = "none"
    /\ m_r = -1 /\ m_out = 0

\* a pass about to start
MutInit ==
    /\ i = 0 /\ m_pc = "loop" /\ m_err = "none" /\ m_last = "none"
    /\ m_r = -1 /\ m_out = 0
    /\ \/ /\ mut_impl = "Car.mutate"
          /\ parts_lib = "none"
          /\ pairs \in SeqsOf(FreshPairs, 1, MaxCodeLen)
          /\ m_frame = <<>> /\ m_pt = <<>>
       \/ /\ mut_impl = "population.mutate"
          /\ parts_lib \in {"patched", "module"}
          /\ pairs = <<>>
          /\ \E n \in 1..MaxListLen :
                /\ m_frame = [k \in 1..n |-> Part("f", 0, k)]
                /\ m_pt = [k \in 1..n |-> Part("p", 0, k)]

MutateReplace ==
    /\ UNCHANGED not_mut
    /\ m_pc = "loop" /\ i < MLen
    /\ \E r \in Draws :
        /\ DrawReplace(r) /\ m_r' = r
        /\ \/ /\ mut_impl = "Car.mutate"
              /\ \E fp \in FreshPairs : pairs' = Put(pairs, i, fp)
              /\ i' = i + 1 /\ m_last' = "replace"
              /\ UNCHANGED <<m_frame, m_pt, m_pc, m_err>>
           \/ /\ mut_impl = "population.mutate"
              /\ FreshFrameParts(parts_lib) # {}
              /\ \E f \in FreshFrameParts(parts_lib), p \in FreshPowertrainParts(parts_lib) :
                    LET new == ListReplace(m_frame, m_pt, i, Part(f, 0, 0), Part(p, 0, 0))
                    IN  m_frame' = new.frame /\ m_pt' = new.powertrain
              /\ i' = i + 1 /\ m_last' = "replace"
              /\ UNCHANGED <<pairs, m_pc, m_err>>
    /\ UNCHANGED <<mut_impl, parts_lib, m_out>>

MutateRemove ==
    /\ UNCHANGED not_mut
    /\ m_pc = "loop" /\ i < MLen
    /\ \E r \in Draws :
        /\ DrawRemove(r, LenRead) /\ m_r' = r
        /\ \/ /\ mut_impl = "Car.mutate"
              /\ pairs' = Pop(pairs, i)
              /\ UNCHANGED <<m_frame, m_pt>>
           \/ /\ mut_impl = "population.mutate"
              /\ LET new == ListRemove(m_frame, m_pt, i)
                 IN  m_frame' = new.frame /\ m_pt' = new.powertrain
              /\ UNCHANGED pairs
    /\ m_last' = "remove"
    /\ UNCHANGED <<mut_impl, parts_lib, i, m_pc, m_err, m_out>>

MutateInsert ==
    /\ UNCHANGED not_mut
    /\ m_pc = "loop" /\ i < MLen
    /\ MLen < MaxLen
    /\ \E r \in Draws :
        /\ DrawInsert(r, LenRead) /\ m_r' = r
        /\ \/ /\ mut_impl = "Car.mutate"
              /\ \E fp \in FreshPairs : pairs' = Insert(pairs, i, fp)
              /\ UNCHANGED <<m_frame, m_pt>>
           \/ /\ mut_impl = "population.mutate"
              /\ FreshFrameParts(parts_lib) # {}
              /\ \E f \in FreshFrameParts(parts_lib), p \in FreshPowertrainParts(parts_lib) :
                    LET new == ListInsert(m_frame, m_pt, i, Part(f, 0, 0), Part(p, 0, 0))
                    IN  m_frame' = new.frame /\ m_pt' = new.powertrain
              /\ UNCHANGED pairs
    /\ i' = i + 1 /\ m_last' = "insert"
    /\ UNCHANGED <<mut_impl, parts_lib, m_pc, m_err, m_out>>

\* the insert branch on a list of which MaxLen slots are kept already. A
\* longer list is followed by its last MaxLen slots only: the part is
\* inserted before slot i and the first slot kept, which the loop has passed
\* (or is the inserted part, which it passes now), is kept no longer but
\* still counted in m_out; i, which the branch moves past the inserted part,
\* counts from the new first slot kept
MutateInsertBeyond ==
    /\ UNCHANGED not_mut
    /\ m_pc = "loop" /\ i < MLen
    /\ MLen = MaxLen
    /\ \E r \in Draws :
        /\ DrawInsert(r, LenRead) /\ m_r' = r
        /\ \/ /\ mut_impl = "Car.mutate"
              /\ \E fp \in FreshPairs : pairs' = Tail(Insert(pairs, i, fp))
              /\ UNCHANGED <<m_frame, m_pt>>
           \/ /\ mut_impl = "population.mutate"
              /\ FreshFrameParts(parts_lib) # {}
              /\ \E f \in FreshFrameParts(parts_lib), p \in FreshPowertrainParts(parts_lib) :
                    LET new == ListInsert(m_frame, m_pt, i, Part(f, 0, 0), Part(p, 0, 0))
                    IN  m_frame' = Tail(new.frame) /\ m_pt' = Tail(new.powertrain)
              /\ UNCHANGED pairs
    /\ m_out' = (IF m_out < MaxOut THEN m_out + 1 ELSE MaxOut)
    /\ m_last' = "insert"
    /\ UNCHANGED <<mut_impl, parts_lib, i, m_pc, m_err>>

\* replace or insert with the module's own frame classes: from_random() raises
\* TypeError before anything is assigned or inserted
MutateFromRandomFails ==
    /\ UNCHANGED not_mut
    /\ m_pc = "loop" /\ i < MLen
    /\ mut_impl = "population.mutate"
    /\ FreshFrameParts(parts_lib) = {}
    /\ \E r \in Draws : (DrawReplace(r) \/ DrawInsert(r, LenRead)) /\ m_r' = r
    /\ m_pc' = "error" /\ m_err' = "TypeError" /\ m_last' = "raise"
    /\ UNCHANGED <<mut_impl, parts_lib, pairs, m_frame, m_pt, i, m_out>>

MutateKeep ==
    /\ UNCHANGED not_mut
    /\ m_pc = "loop" /\ i < MLen
    /\ \E r \in Draws : DrawKeep(r, LenRead) /\ m_r' = r
    /\ i' = i + 1 /\ m_last' = "keep"
    /\ UNCHANGED <<mut_impl, parts_lib, pairs, m_frame, m_pt, m_pc, m_err, m_out>>

\* the loop is over: Car.mutate unzips and builds Car(...); population.mutate
\* asserts the two lengths agree and returns the car. m_frame and m_pt are
\* the slots of the result that are kept; the slots before them are pairs of
\* known codes, so a list that has any is not empty and builds
MutateReturn ==
    /\ UNCHANGED not_mut
    /\ m_pc = "loop" /\ ~(i < MLen)
    /\ \/ /\ mut_impl = "Car.mutate"
          /\ m_frame' = (IF pairs # <<>> THEN Unzip(pairs, 1) ELSE <<>>)
          /\ m_pt' = (IF pairs # <<>> THEN Unzip(pairs, 2) ELSE <<>>)
          /\ m_err' = (IF m_out > 0 THEN "none" ELSE BuildError(m_frame', m_pt'))
       \/ /\ mut_impl = "population.mutate"
          /\ m_err' = (IF Len(m_frame) = Len(m_pt) THEN "none" ELSE "AssertionError")
          /\ UNCHANGED <<m_frame, m_pt>>
    /\ m_pc' = (IF m_err' = "none" THEN "done" ELSE "error")
    /\ m_last' = "return"
    /\ UNCHANGED <<mut_impl, parts_lib, pairs, i, m_r, m_out>>

-----------------------------------------------------------------------------
(* Cars as the genetic operators see them                                  *)

\* an engine handle (body, shape) in car.frame: the part it was made for and
\* the physics space it has been added to: "none", "this" (the space of the
\* simulation at hand), "gone" (a space made before that one) or "two" (a
\* space made before and then another one)
Handle(t, o, a) == [type |-> t, of |-> o, at |-> a, space |-> "none"]

\* the handles a frame-part list gives rise to (Car._build_frame,
\* Car._rebuild_frame_physics): one per frame part, in order
HandlesOf(parts) ==
    [k \in 1..Len(parts) |-> Handle(parts[k].type, parts[k].of, parts[k].at)]

\* Car({"frame": [...codes], "powertrain": [...codes]}): every part is made by
\* from_random, so nothing of an earlier car is carried over (o: maker's tag)
BuildCar(frame_codes, pt_codes, o) ==
    LET fp == [k \in 1..Len(frame_codes) |-> Part(frame_codes[k], o, k)]
    IN  [kind        |-> "Car",
         frame       |-> HandlesOf(fp),
         frame_parts |-> fp,
         powertrain  |-> [k \in 1..Len(pt_codes) |-> Part(pt_codes[k], o, k)]]

\* the test double of tests/test_population.py: two plain lists
DummyCar(o, n) ==
    [kind        |-> "dummy",
     frame       |-> [k \in 1..n |-> Part("f", o, k)],
     frame_parts |-> <<>>,
     powertrain  |-> [k \in 1..n |-> Part("p", o, k)]]

\* Car.to_dna as far as the genetic operators use it
CarDna(c) == [frame |-> c.frame_parts, powertrain |-> c.powertrain]

\* type codes of to_dna(): part["type"]
TypesOf(parts) == [n \in 1..Len(parts) |-> parts[n].type]

\* zip(frame_codes, pt_codes): as long as the shorter list
Zip(a, b) ==
    [n \in 1..(IF Len(a) < Len(b) THEN Len(a) ELSE Len(b)) |-> <<a[n], b[n]>>]

\* copy.deepcopy(car): a new object with the same content
DeepCopy_Alias(h, id) == [heap |-> h, id |-> id]
DeepCopy(h, id) == [heap |-> Append(h, h[id]), id |-> Len(h) + 1]

-----------------------------------------------------------------------------
(* Reproduction: Car.reproduce and population.reproduce                    *)

SEQUENCE_LENGTH == 3

\* `random.random() < 0.5`, in hundredths
cross_p == 50
Coins == {25, 75}

FrameTypes == <<"R", "W", "R", "R", "W">>
PowertrainTypes == <<"C", "G", "D", "D", "G">>

\* a Car of n slots with the codes of main.CAR_DNA, rotated by o
SampleCar(o, n) ==
    BuildCar([k \in 1..n |-> FrameTypes[((k + o - 2) % 5) + 1]],
             [k \in 1..n |-> PowertrainTypes[((k + 2 * o - 3) % 5) + 1]], o)

\* Car.reproduce: `idx + j < len(child.frame) and idx + j < len(other.frame)`
CarReproduceGuard_NoDonorCheck(k, childList, otherList) == k < Len(childList)
CarReproduceGuard(k, childList, otherList) == k < Len(childList) /\ k < Len(otherList)

\* population.reproduce: `i + j < len(car3.frame)`
PopReproduceGuard(k, childList, otherList) == k < Len(childList)

ReproduceGuard(impl, k, childList, otherList) ==
    IF impl = "Car.reproduce" THEN CarReproduceGuard(k, childList, otherList)
    ELSE PopReproduceGuard(k, childList, otherList)

\* `for j in range(SEQUENCE_LENGTH): if <guard>: child[idx+j] = other[idx+j]`
\* on one list. The read other[idx+j] raises IndexError at or past the donor's
\* end, the assignment child[idx+j] at or past the child's end; the offsets
\* before the first raise have been copied.
Window_FromStart(impl, childList, otherList, at) ==
    LET js     == {j \in 0..(SEQUENCE_LENGTH - 1) :
                      ReproduceGuard(impl, at + j, childList, otherList)}
        faults == {j \in js : at + j >= Len(otherList) \/ at + j >= Len(childList)}
        stop   == IF faults = {} THEN SEQUENCE_LENGTH
                  ELSE CHOOSE j \in faults : \A h \in faults : j <= h
        done   == {j \in js : j < stop}
    IN  [list   |-> [n \in 1..Len(childList) |->
                        IF (n - 1 - at) \in done THEN otherList[n - at] ELSE childList[n]],
         raised |-> faults # {},
         reads  |-> {at + j : j \in {h \in js : h <= stop}},
         writes |-> {at + j : j \in {h \in js : h <= stop /\ at + h < Len(otherList)}}]
Window(impl, childList, otherList, at) ==
    LET js     == {j \in 0..(SEQUENCE_LENGTH - 1) :
                      ReproduceGuard(impl, at + j, childList, otherList)}
        faults == {j \in js : at + j >= Len(otherList) \/ at + j >= Len(childList)}
        stop   == IF faults = {} THEN SEQUENCE_LENGTH
                  ELSE CHOOSE j \in faults : \A h \in faults : j <= h
        done   == {j \in js : j < stop}
    IN  [list   |-> [n \in 1..Len(childList) |->
                        IF (n - 1 - at) \in done THEN otherList[n] ELSE childList[n]],
         raised |-> faults # {},
         reads  |-> {at + j : j \in {h \in js : h <= stop}},
         writes |-> {at + j : j \in {h \in js : h <= stop /\ at + h < Len(otherList)}}]

\* `other = car1 if mother == car2 else car2`
Other == IF mother = car2 THEN car1 ELSE car2

RepIdle ==
    /\ x_impl = "none" /\ car1 = 0 /\ car2 = 0 /\ mother = 0 /\ child = 0
    /\ x_result = 0 /\ idx = 0 /\ x_reads = {} /\ x_writes = {}
    /\ x_pc = "idle" /\ x_err = "none"

\* reproduce(car1, car2) about to be called on two cars of the heap
RepInit ==
    /\ x_impl \in {"Car.reproduce", "population.reproduce"}
    /\ \E n1, n2 \in 1..MaxParentLen :
          heap = IF x_impl = "Car.reproduce"
                 THEN <<SampleCar(1, n1), SampleCar(2, n2)>>
                 ELSE <<DummyCar(1, n1), DummyCar(2, n2)>>
    /\ car1 = 1 /\ car2 = 2
    /\ mother = 0 /\ child = 0 /\ x_result = 0 /\ idx = 0
    /\ x_reads = {} /\ x_writes = {} /\ x_pc = "start" /\ x_err = "none"

\* mother = random.choice([car1, car2]); child = copy.deepcopy(mother)
ReproduceStart ==
    /\ x_pc = "start"
    /\ \E m \in {car1, car2} :
          LET cp == DeepCopy(heap, m)
          IN  mother' = m /\ child' = cp.id /\ heap' = cp.heap
    /\ idx' = 0 /\ x_pc' = "loop"
    /\ UNCHANGED <<x_impl, car1, car2, x_result, x_reads, x_writes, x_err>>
    /\ UNCHANGED <<mut_vars, evo_vars, phen_vars>>

\* one iteration of `for idx in range(len(child.frame))`: the frame window,
\* then the powertrain window, each behind its own coin
ReproduceWindow ==
    /\ x_pc = "loop" /\ idx < Len(heap[child].frame)
    /\ \E cf \in Coins, cp \in Coins :
          LET dof == cf < cross_p
              fw  == Window(x_impl, heap[child].frame, heap[Other].frame, idx)
              h1  == IF dof THEN [heap EXCEPT ![child].frame = fw.list] ELSE heap
              dop == (~dof \/ ~fw.raised) /\ cp < cross_p
              pw  == Window(x_impl, h1[child].powertrain, h1[Other].powertrain, idx)
          IN  /\ heap' = (IF dop THEN [h1 EXCEPT ![child].powertrain = pw.list] ELSE h1)
              /\ x_reads' =
                          (IF dof THEN {<<"frame", k>> : k \in fw.reads} ELSE {})
                     \cup (IF dop THEN {<<"powertrain", k>> : k \in pw.reads} ELSE {})
              /\ x_writes' =
                          (IF dof THEN {<<"frame", k>> : k \in fw.writes} ELSE {})
                     \cup (IF dop THEN {<<"powertrain", k>> : k \in pw.writes} ELSE {})
              /\ IF (dof /\ fw.raised) \/ (dop /\ pw.raised)
                 THEN x_pc' = "error" /\ x_err' = "IndexError" /\ idx' = idx
                 ELSE x_pc' = "loop" /\ x_err' = x_err /\ idx' = idx + 1
    /\ UNCHANGED <<x_impl, car1, car2, mother, child, x_result>>
    /\ UNCHANGED <<mut_vars, evo_vars, phen_vars>>

\* the crossover loop is over: Car.reproduce returns child.mutate(), which
\* works on the codes of child.to_dna(); population.reproduce calls
\* mutate(car3), which edits the two lists of the copy in place
ReproduceMutate ==
    /\ x_pc = "loop" /\ ~(idx < Len(heap[child].frame))
    /\ m_pc = "idle"
    /\ x_pc' = "mutate"
    /\ i' = 0 /\ m_pc' = "loop" /\ m_err' = "none" /\ m_last' = "none"
    /\ m_r' = -1 /\ m_out' = 0
    /\ IF x_impl = "Car.reproduce"
       THEN /\ mut_impl' = "Car.mutate" /\ parts_lib' = "none"
            /\ pairs' = Zip(TypesOf(CarDna(heap[child]).frame),
                            TypesOf(CarDna(heap[child]).powertrain))
            /\ m_frame' = <<>> /\ m_pt' = <<>>
       ELSE /\ mut_impl' = "population.mutate"
            /\ parts_lib' \in {"patched", "module"}
            /\ pairs' = <<>>
            /\ m_frame' = heap[child].frame /\ m_pt' = heap[child].powertrain
    /\ x_reads' = {} /\ x_writes' = {}
    /\ UNCHANGED <<heap, x_impl, car1, car2, mother, child, x_result, idx, x_err>>
    /\ UNCHANGED <<evo_vars, phen_vars>>

\* the mutation pass has ended: Car.mutate's new Car, or the copy that
\* population.mutate edited in place, is what reproduce returns
ReproduceReturn ==
    /\ x_pc = "mutate" /\ m_pc \in {"done", "error"}
    /\ x_err' = m_err
    /\ IF m_pc = "error"
       THEN /\ x_pc' = "error" /\ x_result' = 0
            /\ heap' = (IF x_impl = "population.reproduce"
                        THEN [heap EXCEPT ![child].frame = m_frame,
                                          ![child].powertrain = m_pt]
                        ELSE heap)
       ELSE /\ x_pc' = "done"
            /\ IF x_impl = "Car.reproduce"
               THEN /\ heap' = Append(heap, BuildCar(m_frame, m_pt, 0))
                    /\ x_result' = Len(heap) + 1
               ELSE /\ heap' = [heap EXCEPT ![child].frame = m_frame,
                                            ![child].powertrain = m_pt]
                    /\ x_result' = child
    /\ mut_impl' = "none" /\ parts_lib' = "none" /\ pairs' = <<>> /\ m_frame' = <<>>
    /\ m_pt' = <<>> /\ i' = 0 /\ m_pc' = "idle" /\ m_err' = "none" /\ m_last' = "none"
    /\ m_r' = -1 /\ m_out' = 0
    /\ UNCHANGED <<x_impl, car1, car2, mother, child, idx, x_reads, x_writes>>
    /\ UNCHANGED <<evo_vars, phen_vars>>

\* the crossover loop is over and Car.reproduce returns child.mutate(): the
\* whole pass in one step (the generation loop does not follow its iterations)
ReproduceMutated ==
    /\ x_pc = "loop" /\ ~(idx < Len(heap[child].frame))
    /\ x_impl = "Car.reproduce"
    /\ \E ps \in MutateOutcomes(Zip(TypesOf(CarDna(heap[child]).frame),
                                     TypesOf(CarDna(heap[child]).powertrain)), 0, LoopPairs) :
          \* the copy is a local of Car.reproduce: nothing refers to it
          \* once the method has returned
          LET kept == IF child = Len(heap) /\ child \notin {car1, car2}
                      THEN SubSeq(heap, 1, child - 1) ELSE heap
          IN  /\ BuildError(Unzip(ps, 1), Unzip(ps, 2)) = "none"
              /\ heap' = Append(kept, BuildCar(Unzip(ps, 1), Unzip(ps, 2), 0))
              /\ x_result' = Len(kept) + 1
    /\ x_pc' = "done"
    /\ car1' = 0 /\ car2' = 0 /\ mother' = 0 /\ child' = 0 /\ idx' = 0
    /\ x_reads' = {} /\ x_writes' = {}
    /\ UNCHANGED <<x_impl, x_err>>
    /\ UNCHANGED <<mut_vars, evo_vars, phen_vars>>

-----------------------------------------------------------------------------
(* evolve_population and the generation loop of main                       *)

\* arguments and random draws, in hundredths
RetainRatios == {50, 90, 200}
MutationRates == {50}
RateDraws == {5, 50}
\* Car.get_y_position() after the simulation: the physics engine's answer
Scores == {1, 2}

Max(a, b) == IF a > b THEN a ELSE b
Min(a, b) == IF a < b THEN a ELSE b

\* int(x) of the quotient n / d (d > 0): truncation towards zero
Trunc(n, d) == IF n >= 0 THEN n \div d ELSE -((-n) \div d)

\* Car.reset_physics: every engine handle is rebuilt from frame_parts
ResetPhysics_Keep(c) == c
ResetPhysics(c) == [c EXCEPT !.frame = HandlesOf(c.frame_parts)]

\* Car.add_to_space: the handles now belong to the space given, the one of
\* the simulation at hand
AddToSpace(c) ==
    [c EXCEPT !.frame = [k \in 1..Len(c.frame) |->
        [c.frame[k] EXCEPT !.space = IF @ \in {"none", "this"} THEN "this" ELSE "two"]]]

\* pymunk.Space(): the simulation at hand has a new space, so what was added
\* to its space so far is in a space made before
NewSpace(h) ==
    [id \in 1..Len(h) |->
        [h[id] EXCEPT !.frame = [k \in 1..Len(h[id].frame) |->
            [h[id].frame[k] EXCEPT !.space = IF @ = "this" THEN "gone" ELSE @]]]]

\* Simulation.score_population: nothing for no cars; else a new space, every
\* car reset and added, and one (car, score) per car in input order; sc[k]
\* is the k-th car's score
ScorePopulation(h, cars, sc) ==
    [heap   |-> IF cars = <<>> THEN h
                ELSE [id \in 1..Len(h) |->
                        IF \E k \in 1..Len(cars) : cars[k] = id
                        THEN AddToSpace(ResetPhysics(NewSpace(h)[id])) ELSE NewSpace(h)[id]],
     scored |-> [k \in 1..Len(cars) |-> <<cars[k], sc[k]>>]]

\* Simulation.score_car: nothing for a car without parts; else the car is
\* reset, added to the simulation's space, run and removed
ScoreCar(h, id) ==
    IF h[id].frame = <<>> \/ h[id].powertrain = <<>> THEN h
    ELSE [h EXCEPT ![id] = AddToSpace(ResetPhysics(h[id]))]

\* scored.sort(key=lambda x: x[1], reverse=True): stable, descending
SortDescending(sc) ==
    LET rank(k) == 1 + Cardinality({j \in 1..Len(sc) :
                        sc[j][2] > sc[k][2] \/ (sc[j][2] = sc[k][2] /\ j < k)})
    IN  [r \in 1..Len(sc) |-> sc[CHOOSE k \in 1..Len(sc) : rank(k) = r]]

\* round(x) of the quotient n / d (n >= 0, d > 0): to the nearest integer, a
\* tie to the even one
Round(n, d) ==
    LET q == n \div d
        r == n % d
    IN  IF 2 * r < d THEN q
        ELSE IF 2 * r > d THEN q + 1
        ELSE IF q % 2 = 0 THEN q ELSE q + 1

\* retain_count = max(2, int(len(scored) * retain_ratio))
RetainCount_Rounded(n, ratio) == Max(2, Round(n * ratio, 100))
RetainCount(n, ratio) == Max(2, Trunc(n * ratio, 100))

\* survivors = [car for car, _ in scored[:retain_count]]
Survivors(sorted, count) == [k \in 1..Min(count, Len(sorted)) |-> sorted[k][1]]

\* `while len(survivors) + len(children) < len(population)`
MoreChildren_OneTooMany(surv, kids, pop) == Len(surv) + Len(kids) <= Len(pop)
MoreChildren(surv, kids, pop) == Len(surv) + Len(kids) < Len(pop)

\* `if random.random() < mutation_rate: mutate(child)` then
\* `children.append(child)`: the car appended is child; what mutate returned
\* is dropped
AppendedChild(childId, mutatedId) == childId

\* `return survivors + children`: the objects the new population does not
\* reach are gone; the members are renumbered in population order
Compact(h, pop) ==
    [heap       |-> [k \in 1..Len(pop) |-> h[pop[k]]],
     population |-> [k \in 1..Len(pop) |-> k]]

EvoIdle ==
    /\ population = <<>> /\ retain_ratio = 0 /\ mutation_rate = 0 /\ scored = <<>>
    /\ survivors = <<>> /\ children = <<>> /\ dna_before = <<>> /\ gen = 0
    /\ mutated_dna = <<>>
    /\ e_pc = "idle"

\* initialize_population(size, dna_length): size cars of the same length
EvoInit ==
    /\ \E n \in 0..MaxPop, len \in 1..MaxDnaLen :
          /\ heap = [k \in 1..n |-> SampleCar(k, len)]
          /\ population = [k \in 1..n |-> k]
    /\ retain_ratio = 0 /\ mutation_rate = 0 /\ scored = <<>>
    /\ survivors = <<>> /\ children = <<>> /\ dna_before = <<>> /\ gen = 0
    /\ mutated_dna = <<>>
    /\ e_pc = "ready"

RepReset ==
    /\ x_impl' = "none" /\ car1' = 0 /\ car2' = 0 /\ mother' = 0 /\ child' = 0
    /\ x_result' = 0 /\ idx' = 0 /\ x_reads' = {} /\ x_writes' = {}
    /\ x_pc' = "idle" /\ x_err' = "none"

\* evolve_population up to the breeding loop: score, sort, retain
EvolveSelect ==
    /\ e_pc = "ready" /\ gen < MaxGenerations
    /\ \E rr \in RetainRatios, mr \in MutationRates, sc \in [1..Len(population) -> Scores] :
          LET res    == ScorePopulation(heap, population, sc)
              sorted == SortDescending(res.scored)
          IN  /\ heap' = res.heap
              /\ scored' = sorted
              /\ survivors' = Survivors(sorted, RetainCount(Len(sorted), rr))
              /\ retain_ratio' = rr /\ mutation_rate' = mr
    /\ children' = <<>>
    /\ dna_before' = [id \in 1..Len(heap) |-> CarDna(heap[id])]
    /\ mutated_dna' = <<>>
    /\ e_pc' = "breed"
    /\ UNCHANGED <<population, gen>>
    /\ UNCHANGED <<mut_vars, rep_vars, phen_vars>>

\* parent1, parent2 = random.sample(survivors, 2); child = reproduce(...)
\* (scored and retain_ratio are not read again: the model drops them)
EvolveBreed ==
    /\ e_pc = "breed" /\ MoreChildren(survivors, children, population)
    /\ \E a, b \in 1..Len(survivors) :
          /\ a # b
          /\ car1' = survivors[a] /\ car2' = survivors[b]
    /\ x_impl' = "Car.reproduce" /\ x_pc' = "start"
    /\ mother' = 0 /\ child' = 0 /\ x_result' = 0 /\ idx' = 0
    /\ x_reads' = {} /\ x_writes' = {} /\ x_err' = "none"
    /\ e_pc' = "reproduce"
    /\ retain_ratio' = 0 /\ scored' = <<>> /\ mutated_dna' = <<>>
    /\ UNCHANGED <<heap, population, mutation_rate, survivors, children, dna_before, gen>>
    /\ UNCHANGED <<mut_vars, phen_vars>>

\* reproduce has returned and the draw is below mutation_rate:
\* mutate(child) makes a new Car, then children.append(child)
EvolveMutateChild ==
    /\ e_pc = "reproduce" /\ x_pc = "done"
    /\ \E r \in RateDraws : r < mutation_rate
    /\ \E ps \in MutateOutcomes(Zip(TypesOf(CarDna(heap[x_result]).frame),
                                     TypesOf(CarDna(heap[x_result]).powertrain)), 0, LoopPairs) :
          LET mutated  == Len(heap) + 1
              appended == AppendedChild(x_result, mutated)
          IN  /\ BuildError(Unzip(ps, 1), Unzip(ps, 2)) = "none"
              /\ children' = Append(children, appended)
              /\ mutated_dna' = ps
              \* a car nothing refers to is gone
              /\ heap' = IF appended = mutated
                         THEN Append(heap, BuildCar(Unzip(ps, 1), Unzip(ps, 2), 0))
                         ELSE heap
    /\ e_pc' = "breed"
    /\ RepReset
    /\ UNCHANGED <<population, retain_ratio, mutation_rate, scored, survivors,
                   dna_before, gen>>
    /\ UNCHANGED <<mut_vars, phen_vars>>

\* reproduce has returned and the draw is not below mutation_rate
EvolveAppend ==
    /\ e_pc = "reproduce" /\ x_pc = "done"
    /\ \E r \in RateDraws : ~(r < mutation_rate)
    /\ children' = Append(children, x_result)
    /\ mutated_dna' = <<>>
    /\ e_pc' = "breed"
    /\ RepReset
    /\ UNCHANGED <<heap, population, retain_ratio, mutation_rate, scored, survivors,
                   dna_before, gen>>
    /\ UNCHANGED <<mut_vars, phen_vars>>

\* return survivors + children; main binds it to pop
EvolveReturn ==
    /\ e_pc = "breed" /\ ~MoreChildren(survivors, children, population)
    /\ LET new == Compact(heap, survivors \o children)
       IN  heap' = new.heap /\ population' = new.population
    /\ gen' = gen + 1
    /\ e_pc' = "evolved"
    /\ retain_ratio' = 0 /\ mutation_rate' = 0 /\ scored' = <<>> /\ mutated_dna' = <<>>
    /\ UNCHANGED <<survivors, children, dna_before>>
    /\ UNCHANGED <<mut_vars, rep_vars, phen_vars>>

\* main: scored = score_population(pop, ground, sim) after each generation
\* (the scores only pick the car to log); max(scored, ...) of an empty list
\* raises ValueError, which ends main in that generation
MainScore ==
    /\ e_pc = "evolved"
    /\ \E sc \in [1..Len(population) -> Scores] :
          LET res == ScorePopulation(heap, population, sc)
          IN  heap' = res.heap
    /\ scored' = <<>>
    /\ retain_ratio' = 0 /\ mutation_rate' = 0
    /\ survivors' = <<>> /\ children' = <<>> /\ dna_before' = <<>> /\ mutated_dna' = <<>>
    /\ e_pc' = (IF population = <<>> THEN "error" ELSE "ready")
    /\ UNCHANGED <<population, gen>>
    /\ UNCHANGED <<mut_vars, rep_vars, phen_vars>>

\* main: gen_sim.score_car(best_car, ground, visualize=True) on a fresh
\* Simulation, or score_car on the simulation at hand; the best car is any
\* member, as the scores decide
MainScoreCar ==
    /\ e_pc = "ready" /\ gen >= 1
    /\ \E k \in 1..Len(population), fresh \in BOOLEAN :
          heap' = ScoreCar(IF fresh THEN NewSpace(heap) ELSE heap, population[k])
    /\ UNCHANGED evo_vars
    /\ UNCHANGED <<mut_vars, rep_vars, phen_vars>>

-----------------------------------------------------------------------------
(* Numbers                                                                 *)
(* A python float is modelled by the exact fraction <<n, d>>, d > 0, in    *)
(* lowest terms; d = 0 holds the values that are not finite: <<0, 0>> is   *)
(* nan, <<1, 0>> is inf and <<-1, 0>> is -inf. Rounding is not modelled.   *)

Abs(n) == IF n < 0 THEN -n ELSE n
Sgn(n) == IF n < 0 THEN -1 ELSE IF n > 0 THEN 1 ELSE 0

RECURSIVE Gcd(_, _)
Gcd(a, b) == IF b = 0 THEN a ELSE Gcd(b, a % b)

\* the fraction n / d (d # 0) in lowest terms
Frac(n, d) ==
    LET g == Gcd(Abs(n), Abs(d))
    IN  <<(Sgn(d) * n) \div g, Abs(d) \div g>>

Num(n) == <<n, 1>>
NAN == <<0, 0>>
INF == <<1, 0>>

\* math.isnan, math.isinf
IsNan(x) == x[2] = 0 /\ x[1] = 0
IsInf(x) == x[2] = 0 /\ x[1] # 0

\* x * y
FMul(x, y) ==
    LET n == x[1] * y[1]
        d == x[2] * y[2]
    IN  IF d = 0 THEN <<Sgn(n), 0>> ELSE Frac(n, d)

\* -x, abs(x)
FNeg(x) == <<-x[1], x[2]>>
FAbs(x) == <<Abs(x[1]), x[2]>>

\* x + y, x - y
FAdd(x, y) ==
    IF x[2] = 0 /\ y[2] = 0 THEN (IF x = y THEN x ELSE NAN)
    ELSE IF x[2] = 0 THEN x
    ELSE IF y[2] = 0 THEN y
    ELSE Frac(x[1] * y[2] + y[1] * x[2], x[2] * y[2])
FSub(x, y) == FAdd(x, FNeg(y))

\* x / y for y # 0 (python raises ZeroDivisionError on y = 0)
FDiv(x, y) ==
    FMul(x, IF y[2] = 0 THEN (IF y[1] = 0 THEN NAN ELSE Num(0)) ELSE Frac(y[2], y[1]))

\* x < y, x <= y, x > y: False whenever one side is nan
FLt(x, y) ==
    /\ ~IsNan(x) /\ ~IsNan(y) /\ x # y
    /\ IF x[2] = 0 THEN x[1] < 0
       ELSE IF y[2] = 0 THEN y[1] > 0
       ELSE x[1] * y[2] < y[1] * x[2]
FLe(x, y) == ~IsNan(x) /\ ~IsNan(y) /\ (x = y \/ FLt(x, y))
FGt(x, y) == FLt(y, x)

\* max(a, b): b if b > a, else a
FMax(a, b) == IF FGt(b, a) THEN b ELSE a

-----------------------------------------------------------------------------
(* Powertrain parts and power propagation                                  *)

\* Cylinder(power), DriveShaft(efficiency)
Cylinder(power) == [class |-> "Cylinder", power |-> power]
DriveShaft(efficiency) == [class |-> "DriveShaft", efficiency |-> efficiency]

\* GearSet(input_ratio, wheel_proportion, output_ratio): both ratios are
\* raised to 0.1
GearSet_FloorOne(input_ratio, wheel_proportion, output_ratio) ==
    [class            |-> "GearSet",
     input_ratio      |-> FMax(input_ratio, Num(1)),
     wheel_proportion |-> wheel_proportion,
     output_ratio     |-> FMax(output_ratio, Num(1))]
GearSet(input_ratio, wheel_proportion, output_ratio) ==
    [class            |-> "GearSet",
     input_ratio      |-> FMax(input_ratio, Frac(1, 10)),
     wheel_proportion |-> wheel_proportion,
     output_ratio     |-> FMax(output_ratio, Frac(1, 10))]

\* the GearSet sits at wheel_position: `return (current_power *
\* wheel_proportion, current_torque * wheel_proportion)`, the two totals
\* being those after input_ratio
GearAtWheel_AfterOutput(p, t, g) ==
    [power  |-> FMul(FSub(p, FMul(p, g.wheel_proportion)), g.output_ratio),
     torque |-> FDiv(FSub(t, FMul(t, g.wheel_proportion)), g.output_ratio),
     via    |-> "return"]
GearAtWheel(p, t, g) ==
    [power  |-> FMul(p, g.wheel_proportion),
     torque |-> FMul(t, g.wheel_proportion),
     via    |-> "return"]

\* the loop of Car.calculate_wheel_power from part k on (k = i, 0-based);
\* via tells the early return from the fallback return after the loop
RECURSIVE PowerLoop(_, _, _, _, _)
PowerLoop(chain, wheel_position, k, current_power, current_torque) ==
    IF k >= Len(chain)
    THEN [power |-> current_power, torque |-> current_torque, via |-> "fallback"]
    ELSE
    LET item == chain[k + 1]
    IN  IF item.class = "Cylinder" THEN
            LET p == FAdd(current_power, item.power)
            IN  IF k = wheel_position
                THEN [power |-> p, torque |-> current_torque, via |-> "return"]
                ELSE PowerLoop(chain, wheel_position, k + 1, p, current_torque)
        ELSE IF item.class = "DriveShaft" THEN
            LET p == FMul(current_power, item.efficiency)
                t == FMul(current_torque, item.efficiency)
            IN  IF k = wheel_position
                THEN [power |-> p, torque |-> t, via |-> "return"]
                ELSE PowerLoop(chain, wheel_position, k + 1, p, t)
        ELSE
            LET p  == FMul(current_power, item.input_ratio)
                t  == FDiv(current_torque, item.input_ratio)
                p2 == FMul(FSub(p, FMul(p, item.wheel_proportion)), item.output_ratio)
                t2 == FDiv(FSub(t, FMul(t, item.wheel_proportion)), item.output_ratio)
            IN  IF k = wheel_position
                THEN GearAtWheel(p, t, item)
                ELSE PowerLoop(chain, wheel_position, k + 1, p2, t2)

\* Car.calculate_wheel_power(wheel_position) on self.powertrain = chain
calculate_wheel_power(chain, wheel_position) ==
    PowerLoop(chain, wheel_position, 0, Num(0), Num(10000))

\* the parts the chains are made of
PowerParts ==
    {Cylinder(Num(50)), Cylinder(Num(100)), DriveShaft(Frac(1, 2)),
     GearSet(Num(1), Frac(1, 2), Num(1)), GearSet(Num(2), Frac(1, 4), Frac(1, 2))}

PowIdle == pw_chain = <<>> /\ pw_pos = 0 /\ pw_result = <<>> /\ pw_pc = "idle"

\* a car with this powertrain is about to be asked for the power of one wheel
PowInit ==
    /\ pw_chain \in SeqsOf(PowerParts, 1, MaxChain)
    /\ pw_pos \in 0..Len(pw_chain)
    /\ pw_result = <<>> /\ pw_pc = "call"

CalculateWheelPower ==
    /\ pw_pc = "call"
    /\ pw_result' = calculate_wheel_power(pw_chain, pw_pos)
    /\ pw_pc' = "returned"
    /\ UNCHANGED <<pw_chain, pw_pos>>
    /\ UNCHANGED <<gen_vars, build_vars, val_vars, rec_vars>>

-----------------------------------------------------------------------------
(* Frame parts: Wheel and Rectangle                                        *)

\* Wheel._validate_size
validate_size_NoMinimum(size) ==
    IF IsNan(size) THEN Num(5)
    ELSE IF IsInf(size) THEN Num(5)
    ELSE IF FLe(size, Num(0)) THEN Num(1)
    ELSE IF FGt(size, Num(50)) THEN Num(50)
    ELSE size
validate_size(size) ==
    IF IsNan(size) THEN Num(5)
    ELSE IF IsInf(size) THEN Num(5)
    ELSE IF FLe(size, Num(0)) THEN Num(1)
    ELSE IF FLt(size, Frac(1, 10)) THEN Num(1)
    ELSE IF FGt(size, Num(50)) THEN Num(50)
    ELSE size

\* Wheel._validate_power
validate_power(power) ==
    IF IsNan(power) THEN Num(0)
    ELSE IF IsInf(power) THEN (IF FGt(power, Num(0)) THEN Num(1000) ELSE Num(-1000))
    ELSE IF FGt(FAbs(power), Num(10000))
         THEN (IF FGt(power, Num(0)) THEN Num(10000) ELSE Num(-10000))
    ELSE power

\* Wheel._validate_torque
validate_torque(torque) ==
    IF IsNan(torque) THEN Frac(1, 10)
    ELSE IF IsInf(torque) THEN Num(1000)
    ELSE IF FLe(torque, Num(0)) THEN Frac(1, 10)
    ELSE IF FGt(torque, Num(50000)) THEN Num(50000)
    ELSE torque

\* Wheel._validate_rate
validate_rate(rate) ==
    IF IsNan(rate) THEN Num(0)
    ELSE IF IsInf(rate) THEN (IF FGt(rate, Num(0)) THEN Num(1000) ELSE Num(-1000))
    ELSE IF FGt(FAbs(rate), Num(1000))
         THEN (IF FGt(rate, Num(0)) THEN Num(1000) ELSE Num(-1000))
    ELSE rate

\* the motor of a wheel whose power is below the 0.001 tolerance:
\* SimpleMotor(..., 0.0) with max_force = 0.0
ZeroPowerMotor_WithTorque(torque) == [rate |-> Num(0), max_force |-> validate_torque(torque)]
ZeroPowerMotor(torque) == [rate |-> Num(0), max_force |-> Num(0)]

\* Wheel.build_wheel on a wheel w: power and torque are sanitised and stored,
\* and body, circle, pivot and motor are made anew (made: the stamp that
\* tells one set of engine objects from another); self.body, the chassis
\* body the wheel was given, stays
build_wheel(w, made) ==
    LET power  == validate_power(w.power)
        torque == validate_torque(w.torque)
        rate   == validate_rate(FDiv(FNeg(power), w.size))
        motor  == IF FLt(FAbs(power), Frac(1, 1000))
                  THEN ZeroPowerMotor(torque)
                  ELSE [rate |-> rate, max_force |-> validate_torque(torque)]
    IN  [class   |-> "Wheel",
         power   |-> power,
         torque  |-> torque,
         size    |-> w.size,
         body    |-> w.body,
         physics |-> [made |-> made, radius |-> w.size, motor |-> motor]]

\* Wheel(body, pos, power, torque, size), body being the chassis body made
\* with the same stamp
Wheel(power, torque, size, made) ==
    build_wheel([power |-> power, torque |-> torque, size |-> validate_size(size),
                 body |-> [made |-> made]], made)

\* Wheel.from_random / Wheel.mutate: size = max(abs(normalvariate(10, 5)), 1.0)
random_size(draw) == FMax(FAbs(draw), Num(1))

\* Wheel.mutate: a new size, not passed through _validate_size, then build_wheel
wheel_mutate(w, draw, made) ==
    build_wheel([power |-> w.power, torque |-> w.torque, size |-> random_size(draw),
                 body |-> w.body], made)

\* Rectangle._validate_dimension
validate_dimension(dimension, default) ==
    IF IsNan(dimension) THEN default
    ELSE IF IsInf(dimension) THEN default
    ELSE IF FLe(dimension, Num(0)) THEN Num(1)
    ELSE IF FLt(dimension, Frac(1, 2)) THEN Num(1)
    ELSE IF FGt(dimension, Num(50)) THEN Num(50)
    ELSE dimension

\* Rectangle(body, pos, length, height), the dimensions already drawn when
\* they were not given, body being the chassis body made with the same stamp
Rectangle(length, height, made) ==
    LET l == validate_dimension(length, Num(10))
        h == validate_dimension(height, Num(5))
    IN  [class   |-> "Rectangle",
         length  |-> l,
         height  |-> h,
         body    |-> [made |-> made],
         polygon |-> [made |-> made, length |-> l, height |-> h]]

\* Rectangle.mutate: new dimensions are drawn and validated, and the polygon
\* is made again from them on the body the part holds
rectangle_mutate(r, length, height, made) ==
    LET l == validate_dimension(length, Num(10))
        h == validate_dimension(height, Num(5))
    IN  [r EXCEPT !.length = l, !.height = h,
                  !.polygon = [made |-> made, length |-> l, height |-> h]]

-----------------------------------------------------------------------------
(* DNA documents, Car.build_from_dna, Car.to_dna, Car.reset_physics        *)

\* a DNA entry: a bare code (a str), or a dict with "type" and parameters
Bare(t) == [form |-> "str", type |-> t]
DictR(l, h) == [form |-> "dict", type |-> "R", length |-> l, height |-> h]
DictW(p, t, z) == [form |-> "dict", type |-> "W", power |-> p, torque |-> t, size |-> z]
DictC(p) == [form |-> "dict", type |-> "C", power |-> p]
DictD(e) == [form |-> "dict", type |-> "D", efficiency |-> e]
DictG(a, w, o) ==
    [form |-> "dict", type |-> "G", input_ratio |-> a, wheel_proportion |-> w,
     output_ratio |-> o]
\* a dict whose "type" names no part
DictX == [form |-> "dict", type |-> "X"]

\* Cylinder.to_dna, DriveShaft.to_dna, GearSet.to_dna
powertrain_to_dna(pt) ==
    IF pt.class = "Cylinder" THEN DictC(pt.power)
    ELSE IF pt.class = "DriveShaft" THEN DictD(pt.efficiency)
    ELSE DictG(pt.input_ratio, pt.wheel_proportion, pt.output_ratio)

\* Wheel.to_dna
wheel_to_dna_AsRectangle(w) == DictR(w.size, w.size)
wheel_to_dna(w) == DictW(w.power, w.torque, w.size)

\* Rectangle.to_dna
rectangle_to_dna(r) == DictR(r.length, r.height)

\* `[part["type"] for part in dna["frame"]]`, the same for the powertrain,
\* and zip: the pairs of codes Car.mutate works on
CodesOfDna(dna) == Zip(TypesOf(dna.frame), TypesOf(dna.powertrain))

\* Car.to_dna
to_dna(c) ==
    [powertrain |-> [k \in 1..Len(c.powertrain) |-> powertrain_to_dna(c.powertrain[k])],
     frame      |-> [k \in 1..Len(c.frame_parts) |->
                        IF c.frame_parts[k].class = "Wheel"
                        THEN wheel_to_dna(c.frame_parts[k])
                        ELSE rectangle_to_dna(c.frame_parts[k])]]

\* what the from_random constructors draw during one call: Cylinder power,
\* DriveShaft efficiency, the three GearSet numbers, Wheel size before
\* abs/max, Rectangle length and height after abs
Randoms ==
    {[power |-> Num(100), efficiency |-> Num(1), input_ratio |-> Num(1),
      wheel_proportion |-> Frac(1, 2), output_ratio |-> Num(1),
      size |-> Num(10), length |-> Num(10), height |-> Num(5)],
     [power |-> Num(99), efficiency |-> Frac(3, 4), input_ratio |-> Num(2),
      wheel_proportion |-> Frac(1, 4), output_ratio |-> Frac(1, 2),
      size |-> Frac(-1, 2), length |-> Num(64), height |-> Frac(1, 4)]}

\* Car._create_powertrain_part
create_powertrain_part(e, new_format, rnd) ==
    IF new_format THEN
        \* part_dna["type"] on a str raises TypeError
        IF e.form = "str" THEN [err |-> "TypeError", part |-> <<>>]
        ELSE IF e.type = "C" THEN [err |-> "none", part |-> Cylinder(e.power)]
        ELSE IF e.type = "D" THEN [err |-> "none", part |-> DriveShaft(e.efficiency)]
        ELSE IF e.type = "G"
            THEN [err |-> "none",
                  part |-> GearSet(e.input_ratio, e.wheel_proportion, e.output_ratio)]
        ELSE [err |-> "ValueError", part |-> <<>>]
    ELSE
        \* mapping[part_dna] on a dict raises TypeError (unhashable)
        IF e.form = "dict" THEN [err |-> "TypeError", part |-> <<>>]
        ELSE IF e.type = "C" THEN [err |-> "none", part |-> Cylinder(rnd.power)]
        ELSE IF e.type = "D" THEN [err |-> "none", part |-> DriveShaft(rnd.efficiency)]
        ELSE IF e.type = "G"
            THEN [err |-> "none",
                  part |-> GearSet(rnd.input_ratio, rnd.wheel_proportion, rnd.output_ratio)]
        ELSE [err |-> "ValueError", part |-> <<>>]

\* the entries of a list are built in order; the first that raises ends the
\* build, the parts before it having been appended
BuiltUntilError(outs) ==
    LET bad  == {k \in 1..Len(outs) : outs[k].err # "none"}
        stop == IF bad = {} THEN Len(outs) + 1
                ELSE CHOOSE k \in bad : \A h \in bad : k <= h
    IN  [err   |-> IF bad = {} THEN "none" ELSE outs[stop].err,
         parts |-> [k \in 1..(stop - 1) |-> outs[k].part]]

\* Car._build_powertrain
build_powertrain(powertrain_dna, rnd) ==
    LET new_format == powertrain_dna # <<>> /\ powertrain_dna[1].form = "dict"
    IN  BuiltUntilError([k \in 1..Len(powertrain_dna) |->
            create_powertrain_part(powertrain_dna[k], new_format, rnd)])

\* Car._create_frame_part_from_dna
create_frame_part_from_dna(e, rnd, made) ==
    \* frame_dna["type"] on a str raises TypeError
    IF e.form = "str" THEN [err |-> "TypeError", part |-> <<>>, call |-> <<>>]
    ELSE IF e.type = "R"
        THEN [err |-> "none", part |-> Rectangle(e.length, e.height, made), call |-> <<>>]
    ELSE IF e.type = "W"
        THEN [err |-> "none", part |-> Wheel(e.power, e.torque, e.size, made),
              call |-> <<>>]
    ELSE [err |-> "ValueError", part |-> <<>>, call |-> <<>>]

\* Car._create_frame_part_random; at is len(self.frame) at the time (call:
\* the call of calculate_wheel_power it made, <<>> when it made none)
create_frame_part_random_NextSlot(e, at, powertrain, rnd, made) ==
    IF e.form = "str" /\ e.type = "R"
        THEN [err |-> "none", part |-> Rectangle(rnd.length, rnd.height, made),
              call |-> <<>>]
    ELSE IF e.form = "str" /\ e.type = "W"
        THEN LET pt == calculate_wheel_power(powertrain, at + 1)
             IN  [err |-> "none",
                  part |-> Wheel(pt.power, pt.torque, random_size(rnd.size), made),
                  call |-> [wheel_position |-> at + 1, via |-> pt.via]]
    ELSE [err |-> "ValueError", part |-> <<>>, call |-> <<>>]
create_frame_part_random(e, at, powertrain, rnd, made) ==
    IF e.form = "str" /\ e.type = "R"
        THEN [err |-> "none", part |-> Rectangle(rnd.length, rnd.height, made),
              call |-> <<>>]
    ELSE IF e.form = "str" /\ e.type = "W"
        THEN LET pt == calculate_wheel_power(powertrain, at)
             IN  [err |-> "none",
                  part |-> Wheel(pt.power, pt.torque, random_size(rnd.size), made),
                  call |-> [wheel_position |-> at, via |-> pt.via]]
    ELSE [err |-> "ValueError", part |-> <<>>, call |-> <<>>]

\* Car._build_frame
build_frame(frame_dna_list, powertrain, rnd, made) ==
    LET new_format == frame_dna_list # <<>> /\ frame_dna_list[1].form = "dict"
        outs == [k \in 1..Len(frame_dna_list) |->
            IF new_format
            THEN create_frame_part_from_dna(frame_dna_list[k], rnd, made)
            ELSE create_frame_part_random(frame_dna_list[k], k - 1, powertrain, rnd, made)]
        made_call(c) == c # <<>>
        Built(o, res) ==
            [err   |-> res.err,
             parts |-> res.parts,
             calls |-> SelectSeq([k \in 1..Len(res.parts) |-> o[k].call], made_call)]
        Until(o) == Built(o, BuiltUntilError(o))
    IN  Until(outs)

\* the entry of car.frame for a frame part: (self.body, part.polygon) for a
\* Rectangle, (part.wheel_body, part.circle) for a Wheel
FrameHandle(part, body) ==
    IF part.class = "Rectangle"
    THEN [kind |-> "polygon", body |-> body, obj |-> part.polygon]
    ELSE [kind |-> "circle", body |-> [made |-> part.physics.made], obj |-> part.physics]

IsWheel(part) == part.class = "Wheel"

\* the slots of the frame parts that are wheels, in frame order
WheelSlots(frame_parts) ==
    LET wheel_at(k) == IsWheel(frame_parts[k])
    IN  SelectSeq([k \in 1..Len(frame_parts) |-> k], wheel_at)

\* frame, joints and motors as _build_frame and _rebuild_frame_physics fill
\* them from the frame parts: part.pivot and part.motor are appended for each
\* wheel as the loop comes to it (of: the slot of the wheel they are of)
PhysicsLists(frame_parts, body) ==
    LET slots == WheelSlots(frame_parts)
    IN  [frame  |-> [k \in 1..Len(frame_parts) |-> FrameHandle(frame_parts[k], body)],
         joints |-> [k \in 1..Len(slots) |->
                        [made |-> frame_parts[slots[k]].physics.made, of |-> slots[k]]],
         motors |-> [k \in 1..Len(slots) |->
                        [made      |-> frame_parts[slots[k]].physics.made,
                         of        |-> slots[k],
                         rate      |-> frame_parts[slots[k]].physics.motor.rate,
                         max_force |-> frame_parts[slots[k]].physics.motor.max_force]]]

\* Car.build_from_dna: the error raised, or the car
build_from_dna(dna, rnd) ==
    LET Outcome(pt, fr, ph) ==
        IF pt.err # "none" THEN [err |-> pt.err, car |-> <<>>, calls |-> <<>>]
        ELSE IF fr.err # "none" THEN [err |-> fr.err, car |-> <<>>, calls |-> fr.calls]
        ELSE IF StructureError(ph.frame, pt.parts) # "none"
            THEN [err |-> StructureError(ph.frame, pt.parts), car |-> <<>>,
                  calls |-> fr.calls]
        ELSE [err |-> "none", calls |-> fr.calls,
              car |-> [powertrain  |-> pt.parts,
                       frame_parts |-> fr.parts,
                       frame       |-> ph.frame,
                       joints      |-> ph.joints,
                       motors      |-> ph.motors,
                       body        |-> [made |-> 1],
                       made        |-> 1]]
        \* the powertrain is built first, then the frame with it, then the lists
        WithFrame(pt, fr) == Outcome(pt, fr, PhysicsLists(fr.parts, [made |-> 1]))
        WithPowertrain(pt) == WithFrame(pt, build_frame(dna.frame, pt.parts, rnd, 1))
    IN  WithPowertrain(build_powertrain(dna.powertrain, rnd))

\* _rebuild_frame_physics on a Rectangle: `part.polygon = fresh_rect.polygon`
ResetRectangle_TakeFresh(part, fresh_rect) == fresh_rect
ResetRectangle(part, fresh_rect) == [part EXCEPT !.polygon = fresh_rect.polygon]

\* _rebuild_frame_physics on a Wheel: `part.physics = fresh_wheel.physics`
ResetWheel(part, fresh_wheel) == [part EXCEPT !.physics = fresh_wheel.physics]

\* Car.reset_physics
reset_physics_KeepJoints(c, rnd) ==
    LET made  == c.made + 1
        parts == [k \in 1..Len(c.frame_parts) |->
                    LET part == c.frame_parts[k]
                    IN  IF part.class = "Rectangle"
                        THEN ResetRectangle(part, Rectangle(rnd.length, rnd.height, made))
                        ELSE ResetWheel(part, Wheel(part.power, part.torque, part.size, made))]
        ph    == PhysicsLists(parts, [made |-> made])
    IN  [c EXCEPT !.frame_parts = parts, !.frame = ph.frame, !.joints = @ \o ph.joints,
                  !.motors = ph.motors, !.body = [made |-> made], !.made = made]
reset_physics(c, rnd) ==
    LET made  == c.made + 1
        parts == [k \in 1..Len(c.frame_parts) |->
                    LET part == c.frame_parts[k]
                    IN  IF part.class = "Rectangle"
                        THEN ResetRectangle(part, Rectangle(rnd.length, rnd.height, made))
                        ELSE ResetWheel(part, Wheel(part.power, part.torque, part.size, made))]
        ph    == PhysicsLists(parts, [made |-> made])
    IN  [c EXCEPT !.frame_parts = parts, !.frame = ph.frame, !.joints = ph.joints,
                  !.motors = ph.motors, !.body = [made |-> made], !.made = made]

\* the entries DNA documents are made of
FrameEntries ==
    {Bare("R"), Bare("W"), Bare("X"), DictX,
     DictR(NAN, Num(100)),
     DictW(Frac(-1, 2000), Num(100), NAN), DictW(NAN, INF, Num(0)),
     DictW(Num(50), Num(0), Num(100))}
PowertrainEntries ==
    {Bare("C"), Bare("D"), Bare("G"), Bare("X"), DictX,
     DictC(Num(100)), DictD(Frac(1, 2)), DictG(Num(2), Frac(1, 4), Frac(1, 2))}

\* normalvariate(10, 5) as Wheel.mutate draws it
SizeDraws == {Num(80)}

BuildIdle ==
    /\ b_dna = <<>> /\ b_car = <<>> /\ b_err = "none" /\ b_pc = "idle" /\ b_last = "none"
    /\ b_parent = <<>> /\ b_origin = <<>> /\ b_calls = <<>>

\* Car(dna) is about to be called
BuildInit ==
    /\ \E f \in SeqsOf(FrameEntries, 0, MaxSlots), p \in SeqsOf(PowertrainEntries, 0, MaxSlots) :
          b_dna = [frame |-> f, powertrain |-> p]
    /\ b_car = <<>> /\ b_err = "none" /\ b_pc = "new" /\ b_last = "none"
    /\ b_parent = <<>> /\ b_origin = <<>> /\ b_calls = <<>>

\* Car(dna): the whole of build_from_dna
Build ==
    /\ b_pc = "new"
    /\ \E rnd \in Randoms :
          LET Built(res) ==
                  /\ b_err' = res.err
                  /\ b_car' = res.car
                  /\ b_calls' = res.calls
                  /\ b_pc' = (IF res.err = "none" THEN "built" ELSE "error")
          IN  Built(build_from_dna(b_dna, rnd))
    /\ b_last' = "build"
    /\ UNCHANGED <<b_dna, b_parent, b_origin>>
    /\ UNCHANGED <<gen_vars, pow_vars, val_vars, rec_vars>>

\* car.reset_physics()
ResetPhysicsCall ==
    /\ b_pc = "built" /\ b_car.made < MaxMade
    /\ \E rnd \in Randoms : b_car' = reset_physics(b_car, rnd)
    /\ b_last' = "reset"
    /\ UNCHANGED <<b_dna, b_err, b_pc, b_parent, b_origin, b_calls>>
    /\ UNCHANGED <<gen_vars, pow_vars, val_vars, rec_vars>>

\* part.mutate() on one wheel of the car: the part gets new engine objects,
\* the lists of the car keep the ones they hold
WheelMutate ==
    /\ b_pc = "built" /\ b_car.made < MaxMade
    /\ \E k \in 1..Len(b_car.frame_parts), draw \in SizeDraws :
          /\ b_car.frame_parts[k].class = "Wheel"
          /\ b_car' = [b_car EXCEPT
                          !.frame_parts[k] = wheel_mutate(@, draw, b_car.made + 1),
                          !.made = @ + 1]
    /\ b_last' = "mutate"
    /\ UNCHANGED <<b_dna, b_err, b_pc, b_parent, b_origin, b_calls>>
    /\ UNCHANGED <<gen_vars, pow_vars, val_vars, rec_vars>>

\* part.mutate() on one rectangle of the car: the part gets new dimensions and
\* a new polygon, the lists of the car keep the polygon they hold
RectangleMutate ==
    /\ b_pc = "built" /\ b_car.made < MaxMade
    /\ \E k \in 1..Len(b_car.frame_parts), rnd \in Randoms :
          /\ b_car.frame_parts[k].class = "Rectangle"
          /\ b_car' = [b_car EXCEPT
                          !.frame_parts[k] =
                              rectangle_mutate(@, rnd.length, rnd.height, b_car.made + 1),
                          !.made = @ + 1]
    /\ b_last' = "mutate_rectangle"
    /\ UNCHANGED <<b_dna, b_err, b_pc, b_parent, b_origin, b_calls>>
    /\ UNCHANGED <<gen_vars, pow_vars, val_vars, rec_vars>>

\* Car.mutate on a built car: the pairs of type codes of to_dna(), each with
\* the slot it stands in, so that the pairs the loop leaves unchanged can be
\* told from those it puts in
TaggedPairs(c) ==
    [k \in 1..Len(CodesOfDna(to_dna(c))) |->
        <<CodesOfDna(to_dna(c))[k][1], CodesOfDna(to_dna(c))[k][2], k>>]

\* the pairs that replace and insert draw, in no slot of the parent
TaggedFresh == {<<fp[1], fp[2], 0>> : fp \in LoopPairs}

\* `Car({"frame": list(new_frame), "powertrain": list(new_pt)})`: the DNA
\* that Car.mutate builds the new car from holds bare codes only
MutatedDna(ps) ==
    [frame      |-> [k \in 1..Len(ps) |-> Bare(ps[k][1])],
     powertrain |-> [k \in 1..Len(ps) |-> Bare(ps[k][2])]]

\* the DNA entries of the cars that Car.mutate is followed on
MutableFrameEntries ==
    {Bare("R"), Bare("W"), DictR(Num(20), Num(2)), DictW(Num(50), Num(100), Num(7))}
MutablePowertrainEntries ==
    {Bare("C"), Bare("D"), DictC(Num(120)), DictG(Num(2), Frac(1, 4), Frac(1, 2))}

\* Car(dna) is about to be called, for a car that will be mutated
MutableBuildInit ==
    /\ \E n \in 1..MaxSlots :
          \E f \in SeqsOf(MutableFrameEntries, n, n),
             p \in SeqsOf(MutablePowertrainEntries, n, n) :
                b_dna = [frame |-> f, powertrain |-> p]
    /\ b_car = <<>> /\ b_err = "none" /\ b_pc = "new" /\ b_last = "none"
    /\ b_parent = <<>> /\ b_origin = <<>> /\ b_calls = <<>>

\* car.mutate() on the car built from the DNA (one call is followed: what it
\* returns is a car built from bare codes, like those the DNA may hold)
CarMutate ==
    /\ b_pc = "built" /\ b_parent = <<>>
    /\ \E ps \in MutateOutcomes(TaggedPairs(b_car), 0, TaggedFresh), rnd \in Randoms :
          LET Built(res) ==
                  /\ b_dna' = MutatedDna(ps)
                  /\ b_err' = res.err
                  /\ b_car' = res.car
                  /\ b_calls' = res.calls
                  /\ b_pc' = (IF res.err = "none" THEN "built" ELSE "error")
                  /\ b_origin' = Unzip(ps, 3)
          IN  Built(build_from_dna(MutatedDna(ps), rnd))
    /\ b_parent' = to_dna(b_car)
    /\ b_last' = "mutate_car"
    /\ UNCHANGED <<gen_vars, pow_vars, val_vars, rec_vars>>

-----------------------------------------------------------------------------
(* The validators of the frame parts, called on their own                  *)

\* lengths, heights and sizes around every threshold of the validators, in
\* twentieths, and the three values that are not finite
Twentieths == {-20, -1, 0, 1, 2, 3, 9, 10, 11, 20, 100, 200, 999, 1000, 1001, 2000}
ValidatorInputs == {Frac(k, 20) : k \in Twentieths} \cup {NAN, INF, FNeg(INF)}

\* Rectangle.__init__ validates length with default 10.0 and height with
\* default 5.0; Wheel.__init__ validates size
validate(name, x) ==
    IF name = "length" THEN validate_dimension(x, Num(10))
    ELSE IF name = "height" THEN validate_dimension(x, Num(5))
    ELSE validate_size(x)

ValIdle == v_name = "none" /\ v_in = <<>> /\ v_out = <<>> /\ v_pc = "idle"

ValInit ==
    /\ v_name \in {"length", "height", "size"}
    /\ v_in \in ValidatorInputs
    /\ v_out = <<>> /\ v_pc = "new"

\* the validator is called on the value
ValidateOnce ==
    /\ v_pc = "new"
    /\ v_out' = validate(v_name, v_in)
    /\ v_pc' = "once"
    /\ UNCHANGED <<v_name, v_in>>
    /\ UNCHANGED <<gen_vars, pow_vars, build_vars, rec_vars>>

\* the validator is called on what it returned (reset_physics passes the
\* stored, validated size to Wheel(...) again)
ValidateAgain ==
    /\ v_pc = "once"
    /\ v_out' = validate(v_name, v_out)
    /\ v_pc' = "twice"
    /\ UNCHANGED <<v_name, v_in>>
    /\ UNCHANGED <<gen_vars, pow_vars, build_vars, rec_vars>>

-----------------------------------------------------------------------------
(* One powertrain record through from_dna and to_dna                       *)

\* Cylinder.from_dna, DriveShaft.from_dna, GearSet.from_dna
powertrain_from_dna(dna) ==
    IF dna.type = "C" THEN Cylinder(dna.power)
    ELSE IF dna.type = "D" THEN DriveShaft(dna.efficiency)
    ELSE GearSet(dna.input_ratio, dna.wheel_proportion, dna.output_ratio)

\* the numbers a record may store: negative, zero, below, at and above the
\* 0.1 of GearSet, nan and infinity
RecordValues ==
    {Num(-1), Num(0), Frac(1, 20), Frac(1, 10), Frac(1, 2), Num(2), Num(100), NAN, INF}
PowertrainRecords ==
    {DictC(x) : x \in RecordValues} \cup {DictD(x) : x \in RecordValues}
        \cup {DictG(a, w, o) : a \in RecordValues, w \in {Frac(1, 20), Frac(1, 2)},
                               o \in RecordValues}

RecIdle == d_rec = <<>> /\ d_part = <<>> /\ d_out = <<>> /\ d_pc = "idle"

\* a record is about to be deserialised
RecInit ==
    /\ d_rec \in PowertrainRecords
    /\ d_part = <<>> /\ d_out = <<>> /\ d_pc = "new"

\* part = X.from_dna(record), X the class the tag names
FromDna ==
    /\ d_pc = "new"
    /\ d_part' = powertrain_from_dna(d_rec)
    /\ d_pc' = "part"
    /\ UNCHANGED <<d_rec, d_out>>
    /\ UNCHANGED <<gen_vars, pow_vars, build_vars, val_vars>>

\* part.to_dna()
ToDna ==
    /\ d_pc \in {"part", "again"}
    /\ d_out' = powertrain_to_dna(d_part)
    /\ d_pc' = "dna"
    /\ UNCHANGED <<d_rec, d_part>>
    /\ UNCHANGED <<gen_vars, pow_vars, build_vars, val_vars>>

\* what to_dna returned is deserialised in turn
FromDnaAgain ==
    /\ d_pc = "dna"
    /\ d_rec' = d_out /\ d_part' = powertrain_from_dna(d_out) /\ d_out' = <<>>
    /\ d_pc' = "again"
    /\ UNCHANGED <<gen_vars, pow_vars, build_vars, val_vars>>

\* no phenotype machine is running
PhenIdle == PowIdle /\ BuildIdle /\ ValIdle /\ RecIdle

-----------------------------------------------------------------------------
(* Specifications *)

InitMutate == MutInit /\ heap = <<>> /\ RepIdle /\ EvoIdle /\ PhenIdle
NextMutate ==
    \/ MutateReplace
    \/ MutateRemove
    \/ MutateInsert
    \/ MutateFromRandomFails
    \/ MutateKeep
    \/ MutateReturn
SpecMutate == InitMutate /\ [][NextMutate]_vars

\* a mutation pass in which inserts may go on without end, and in which a
\* draw other than insert comes up sooner or later (random.random() is below
\* 0.15 or at least 0.20 with probability 0.95 at every draw)
NotInsert ==
    \/ MutateReplace
    \/ MutateRemove
    \/ MutateFromRandomFails
    \/ MutateKeep
    \/ MutateReturn
NextMutateFair ==
    \/ NotInsert
    \/ MutateInsert
    \/ MutateInsertBeyond
SpecMutateFair == InitMutate /\ [][NextMutateFair]_vars /\ WF_vars(NotInsert)

InitReproduce == MutIdle /\ RepInit /\ EvoIdle /\ PhenIdle
NextReproduce ==
    \/ ReproduceStart
    \/ ReproduceWindow
    \/ ReproduceMutate
    \/ ReproduceReturn
    \/ MutateReplace
    \/ MutateRemove
    \/ MutateInsert
    \/ MutateFromRandomFails
    \/ MutateKeep
    \/ MutateReturn
SpecReproduce == InitReproduce /\ [][NextReproduce]_vars

\* the generation loop: its cars are Car instances, so reproduce is
\* Car.reproduce and mutate is Car.mutate, each pass taken as one step
InitEvolve == MutIdle /\ RepIdle /\ EvoInit /\ PhenIdle
NextEvolve ==
    \/ EvolveSelect
    \/ EvolveBreed
    \/ EvolveMutateChild
    \/ EvolveAppend
    \/ EvolveReturn
    \/ MainScore
    \/ MainScoreCar
    \/ ReproduceStart
    \/ ReproduceWindow
    \/ ReproduceMutated
SpecEvolve == InitEvolve /\ [][NextEvolve]_vars

\* one call of calculate_wheel_power
InitPower ==
    MutIdle /\ heap = <<>> /\ RepIdle /\ EvoIdle /\ PowInit /\ BuildIdle /\ ValIdle /\ RecIdle
NextPower == CalculateWheelPower
SpecPower == InitPower /\ [][NextPower]_vars

\* a car built from DNA, then reset and mutated
InitBuild ==
    MutIdle /\ heap = <<>> /\ RepIdle /\ EvoIdle /\ PowIdle /\ BuildInit /\ ValIdle /\ RecIdle
NextBuild ==
    \/ Build
    \/ ResetPhysicsCall
    \/ WheelMutate
    \/ RectangleMutate
SpecBuild == InitBuild /\ [][NextBuild]_vars

\* Car(dna) and then car.mutate() on the car
InitCarMutate ==
    /\ MutIdle /\ heap = <<>> /\ RepIdle /\ EvoIdle /\ PowIdle /\ MutableBuildInit
    /\ ValIdle /\ RecIdle
NextCarMutate ==
    \/ Build
    \/ CarMutate
SpecCarMutate == InitCarMutate /\ [][NextCarMutate]_vars

\* a validator called on a value, and again on its result
InitValidate ==
    MutIdle /\ heap = <<>> /\ RepIdle /\ EvoIdle /\ PowIdle /\ BuildIdle /\ ValInit /\ RecIdle
NextValidate ==
    \/ ValidateOnce
    \/ ValidateAgain
SpecValidate == InitValidate /\ [][NextValidate]_vars

\* a powertrain record deserialised and serialised again
InitRecord ==
    MutIdle /\ heap = <<>> /\ RepIdle /\ EvoIdle /\ PowIdle /\ BuildIdle /\ ValIdle /\ RecInit
NextRecord ==
    \/ FromDna
    \/ ToDna
    \/ FromDnaAgain
SpecRecord == InitRecord /\ [][NextRecord]_vars

-----------------------------------------------------------------------------
(* Properties of mutation (SpecMutate) *)

\* C1: after every edit of a mutation pass (replace, remove, insert, keep)
\* the frame sequence and the powertrain sequence have the same length:
\* Car.mutate works on a list of (frame, powertrain) pairs and unzips it into
\* two lists as long as the pair list; population.mutate keeps its two lists
\* equally long and its closing assert never fails.
C1_EqualLength ==
    /\ m_err # "AssertionError"
    /\ mut_impl = "population.mutate" => Len(m_frame) = Len(m_pt)
    /\ mut_impl = "Car.mutate" =>
          /\ \A n \in 1..Len(pairs) : Len(pairs[n]) = 2
          /\ m_pc \in {"done", "error"} =>
                Len(m_frame) = Len(pairs) /\ Len(m_pt) = Len(pairs)

\* a removal has just been made on the two lists of population.mutate, which
\* already hold a part put in by an earlier replace or insert
C1_Witness ==
    /\ mut_impl = "population.mutate" /\ m_last = "remove"
    /\ \E n \in 1..Len(m_frame) : m_frame[n].type = "F"

\* C2: a mutation pass never removes the last remaining slot: the genome has
\* at least one slot in every state of the pass and in its result.
C2_NeverEmpty ==
    m_pc # "idle" =>
        /\ MLen >= 1
        /\ m_pc = "done" => Len(m_frame) >= 1 /\ Len(m_pt) >= 1

\* a removal has brought the genome down to its last slot and the pass goes on
C2_Witness ==
    m_pc = "loop" /\ m_last = "remove" /\ MLen = 1 /\ i < MLen

\* the slots of a list that the pass has gone past, and those still to be
\* examined, the first of them next (k: the loop index)
Examined(list, k) == SubSeq(list, 1, k)
Unexamined(list, k) == SubSeq(list, k + 1, Len(list))

\* an original slot of the car (a part made by the pass has slot 0)
IsOriginal(part) == part.at # 0

\* one iteration of the loop of population.mutate on one of the two lists:
\* the slot examined is an original one; an insertion puts one fresh part in
\* front of it and leaves it the next to be examined; keep, replace and
\* remove leave behind the slot itself, one fresh part or nothing, and the
\* slot after it is the next to be examined
IterationOn(list, listAfter) ==
    LET slot == list[i + 1]
        done == Examined(listAfter, i')
        todo == Unexamined(listAfter, i')
    IN  /\ IsOriginal(slot)
        /\ m_last' \in {"insert", "keep", "replace", "remove", "raise"}
        /\ m_last' = "insert" =>
              /\ Len(done) = i + 1 /\ SubSeq(done, 1, i) = Examined(list, i)
              /\ ~IsOriginal(done[i + 1])
              /\ todo = Unexamined(list, i)
        /\ m_last' = "keep" =>
              /\ done = Append(Examined(list, i), slot)
              /\ todo = Tail(Unexamined(list, i))
        /\ m_last' = "replace" =>
              /\ Len(done) = i + 1 /\ SubSeq(done, 1, i) = Examined(list, i)
              /\ ~IsOriginal(done[i + 1])
              /\ todo = Tail(Unexamined(list, i))
        /\ m_last' = "remove" =>
              /\ done = Examined(list, i)
              /\ todo = Tail(Unexamined(list, i))
        /\ m_last' = "raise" => listAfter = list

\* the original slots of the list are in their original order, none twice,
\* and the frame and powertrain parts of a slot are still side by side
OriginalsInOrder(fr, pt) ==
    /\ Len(fr) = Len(pt)
    /\ \A k \in 1..Len(fr) : fr[k].at = pt[k].at
    /\ \A a, b \in 1..Len(fr) :
          (a < b /\ IsOriginal(fr[a]) /\ IsOriginal(fr[b])) => fr[a].at < fr[b].at

\* C19: in one pass of population.mutate every original slot is examined in
\* turn and gets one terminal decision (keep, replace or remove) after any
\* number of insertions directly in front of it; an inserted or a replacing
\* part is never examined; after a removal the slot that moved into the index
\* is examined next. The result is, for each original slot in the original
\* order, zero or more fresh parts and then the slot itself, one fresh part or
\* nothing.
C19_PassStructure ==
    [][/\ (mut_impl = "population.mutate" /\ m_pc = "loop" /\ i < Len(m_frame)) =>
             /\ IterationOn(m_frame, m_frame')
             /\ IterationOn(m_pt, m_pt')
       /\ (mut_impl = "population.mutate" /\ m_pc = "loop" /\ ~(i < Len(m_frame))) =>
             /\ m_frame' = m_frame /\ m_pt' = m_pt
             /\ OriginalsInOrder(m_frame', m_pt')]_vars

\* a pass has returned a list of three: a fresh part inserted in front of
\* slot 1, slot 1 itself, which was kept, and a fresh part where later slots
\* were
C19_Witness ==
    /\ mut_impl = "population.mutate" /\ m_pc = "done"
    /\ m_frame = <<Part("F", 0, 0), Part("f", 0, 1), Part("F", 0, 0)>>

\* the slots the pass has still to examine: len - i
Remaining == MLen - i

\* C27: a mutation pass ends unless insert is drawn for ever. The number of
\* slots still to examine never grows: it stays as it is on an insert and
\* goes down by one on every keep, replace and remove; so when a draw other
\* than insert comes up sooner or later at every position, the pass ends (by
\* returning, or by the exception a step raises).
C27_PassTerminates ==
    /\ [][(m_pc = "loop" /\ m_pc' = "loop") =>
            IF m_last' = "insert" THEN Remaining' = Remaining
            ELSE m_last' \in {"keep", "replace", "remove"} /\ Remaining' = Remaining - 1]_vars
    /\ <>(m_pc # "loop")

\* a pass of population.mutate has returned a list of MaxLen slots after an
\* insert and a remove: the last slot is the one the list started with, a
\* fresh part stands before it
C27_Witness ==
    /\ mut_impl = "population.mutate" /\ m_pc = "done" /\ m_last = "return"
    /\ Len(m_frame) = MaxLen /\ i = MaxLen /\ m_out >= 1
    /\ m_frame[MaxLen].at = MaxLen /\ m_frame[MaxLen - 1].at = 0

\* the draw lies in the remove band: replace_p <= r < replace_p + remove_p
RemoveBand(r) == r >= replace_p /\ r < replace_p + remove_p

\* C28: on a genome of exactly one slot a draw in the remove band neither
\* deletes the slot nor leaves the genome as it is: the draw falls through to
\* the insert test, a fresh pair is inserted before the slot and the length
\* becomes 2 (in Car.mutate and in population.mutate).
C28_OneSlotRemoveDrawInserts ==
    [][(m_pc = "loop" /\ i < MLen /\ MLen = 1 /\ RemoveBand(m_r')) =>
        /\ m_last' = "insert"
        /\ MLen' = 2 /\ i' = i + 1
        /\ IF mut_impl = "Car.mutate"
           THEN pairs'[1] \in FreshPairs /\ pairs'[2] = pairs[1]
           ELSE /\ m_frame'[1].at = 0 /\ m_frame'[2] = m_frame[1]
                /\ m_pt'[1].at = 0 /\ m_pt'[2] = m_pt[1]]_vars

-----------------------------------------------------------------------------
(* Properties of crossover (SpecReproduce) *)

\* C3: Car.reproduce never reads or writes an index at or past the end of
\* the donor's or of the child's frame or powertrain, whatever the two
\* lengths, the mother and the coins, and so raises no IndexError.
C3_CarReproduceInRange ==
    (x_impl = "Car.reproduce" /\ child # 0) =>
        /\ x_err # "IndexError"
        /\ \A a \in x_reads \cup x_writes :
              LET donor == IF a[1] = "frame" THEN heap[Other].frame
                           ELSE heap[Other].powertrain
                  own   == IF a[1] = "frame" THEN heap[child].frame
                           ELSE heap[child].powertrain
              IN  a[2] < Len(donor) /\ a[2] < Len(own)

\* a three-slot child has taken slot 0 of both lists from a one-slot donor:
\* the window was cut short by the donor's end
C3_Witness ==
    /\ x_impl = "Car.reproduce" /\ x_pc = "loop" /\ idx = 1
    /\ Len(heap[child].frame) = 3 /\ Len(heap[Other].frame) = 1
    /\ x_writes = {<<"frame", 0>>, <<"powertrain", 0>>}

\* the crossover of the call in progress has a child that mutation has not
\* touched yet
BeforeMutation == child # 0 /\ x_pc \in {"loop", "mutate"}

\* slot k (1-based) of the list is the mother's slot k or the donor's slot k
FromParent(own, mum, donor, k) ==
    \/ own[k] = mum[k]
    \/ k <= Len(donor) /\ own[k] = donor[k]

\* C22: population.reproduce on parents that are not Cars raises no
\* IndexError, whatever the two lengths and whichever parent is the mother:
\* every index it reads from the donor and writes to the child lies inside
\* both lists.
C22_FallbackReproduceInRange ==
    (x_impl = "population.reproduce" /\ child # 0) =>
        /\ x_err # "IndexError"
        /\ \A a \in x_reads \cup x_writes :
              LET donor == IF a[1] = "frame" THEN heap[Other].frame
                           ELSE heap[Other].powertrain
                  own   == IF a[1] = "frame" THEN heap[child].frame
                           ELSE heap[child].powertrain
              IN  a[2] < Len(donor) /\ a[2] < Len(own)

\* C12: before mutation is applied the crossover child has the mother's
\* length in frame and powertrain, every slot of it is the mother's slot or
\* the donor's slot at the same index, and at and past the donor's end it is
\* the mother's slot.
C12_CrossoverSlots ==
    BeforeMutation =>
        /\ Len(heap[child].frame) = Len(heap[mother].frame)
        /\ Len(heap[child].powertrain) = Len(heap[mother].powertrain)
        /\ \A k \in 1..Len(heap[child].frame) :
              FromParent(heap[child].frame, heap[mother].frame, heap[Other].frame, k)
        /\ \A k \in 1..Len(heap[child].powertrain) :
              FromParent(heap[child].powertrain, heap[mother].powertrain,
                         heap[Other].powertrain, k)

\* the crossover of a three-slot mother with a two-slot donor is complete:
\* the child's first powertrain slot is the donor's, its second frame slot is
\* the donor's and its third slots are the mother's
C12_Witness ==
    /\ BeforeMutation /\ ~(idx < Len(heap[child].frame))
    /\ Len(heap[mother].frame) = 3 /\ Len(heap[Other].frame) = 2
    /\ heap[child].powertrain[1] = heap[Other].powertrain[1]
    /\ heap[child].powertrain[1] # heap[mother].powertrain[1]
    /\ heap[child].frame[2] = heap[Other].frame[2]
    /\ heap[child].frame[2] # heap[mother].frame[2]
    /\ heap[child].frame[3] = heap[mother].frame[3]
    /\ heap[child].powertrain[3] = heap[mother].powertrain[3]

\* the crossover loop of Car.reproduce is over: child.mutate() is next
CrossoverDone ==
    x_impl = "Car.reproduce" /\ x_pc = "loop" /\ child # 0
        /\ ~(idx < Len(heap[child].frame))

\* C13: in Car.reproduce every frame slot that a selected frame window has
\* overwritten (child.frame holds the donor's slot there) has the donor's
\* frame part type in the genome child.to_dna() that the mutation then works
\* on: the frame crossover shows in the child's DNA.
C13_FrameCrossoverInDna ==
    CrossoverDone =>
        \A k \in 1..Len(heap[child].frame) :
            (k <= Len(heap[Other].frame) /\ heap[child].frame[k] = heap[Other].frame[k])
                => TypesOf(CarDna(heap[child]).frame)[k]
                       = TypesOf(CarDna(heap[Other]).frame)[k]

\* C17: reproduce (Car.reproduce and population.reproduce) never modifies a
\* parent: no step of the call, from the deep copy through the crossover to
\* the mutation of the child and the return, changes the frame, the parts or
\* the powertrain of car1 or car2.
C17_ParentsUntouched ==
    [][(car1 # 0 /\ car1' = car1 /\ car2' = car2)
          => (heap'[car1] = heap[car1] /\ heap'[car2] = heap[car2])]_vars

\* population.reproduce has returned a child whose first frame slot was taken
\* from the donor and whose second was replaced by the mutation, while the
\* mother still has her own two slots
C17_Witness ==
    /\ x_impl = "population.reproduce" /\ x_pc = "done" /\ x_result # 0
    /\ Len(heap[x_result].frame) >= 2 /\ Len(heap[mother].frame) >= 2
    /\ heap[x_result].frame[1] = heap[Other].frame[1]
    /\ heap[x_result].frame[2] = Part("F", 0, 0)
    /\ heap[mother].frame[1] = Part("f", mother, 1)
    /\ heap[mother].frame[2] = Part("f", mother, 2)

-----------------------------------------------------------------------------
(* Properties of the generation loop (SpecEvolve) *)

\* C4: evolve_population returns as many cars as it was given, so the size
\* of the population never changes from one generation to the next.
C4_SizeKept == [][Len(population') = Len(population)]_vars

\* the second generation has been returned, with a bred child in it
C4_Witness ==
    e_pc = "evolved" /\ gen >= 2 /\ Len(children) >= 1
        /\ Len(population) = Len(survivors) + Len(children)

\* C5: the retained survivors keep the DNA they had before the call, through
\* every crossover and mutation of the generation, and enter the returned
\* population with it.
C5_SurvivorsUntouched ==
    /\ e_pc \in {"breed", "reproduce"} =>
          \A k \in 1..Len(survivors) :
              CarDna(heap[survivors[k]]) = dna_before[survivors[k]]
    /\ e_pc = "evolved" =>
          \A k \in 1..Len(survivors) :
              CarDna(heap[population[k]]) = dna_before[survivors[k]]

\* a generation has been returned whose bred child has a powertrain that
\* none of the survivors has
C5_Witness ==
    /\ e_pc = "evolved" /\ Len(children) = 1
    /\ \A k \in 1..Len(survivors) :
          TypesOf(CarDna(heap[Len(population)]).powertrain)
              # TypesOf(dna_before[survivors[k]].powertrain)

\* the scores of the call in progress, by car
ScoreOf(id) == (CHOOSE k \in 1..Len(scored) : scored[k][1] = id)

\* the members of the population that the call in progress did not retain
NotRetained == {population[k] : k \in 1..Len(population)}
                  \ {survivors[k] : k \in 1..Len(survivors)}

\* evolve_population has scored, sorted and retained, and has bred nothing yet
JustSelected == e_pc = "breed" /\ Len(scored) = Len(population) /\ children = <<>>

\* C11 as claimed: evolve_population retains max(2, round(retain_ratio * N))
\* members, limited by N, and they are the highest-scoring ones.
C11_RetainRounded ==
    JustSelected =>
        /\ Len(survivors)
              = Min(Len(population), Max(2, Round(Len(population) * retain_ratio, 100)))
        /\ \A a \in 1..Len(survivors), b \in NotRetained :
              scored[ScoreOf(survivors[a])][2] >= scored[ScoreOf(b)][2]

\* C11 as amended: evolve_population retains max(2, int(retain_ratio * N))
\* members, the product truncated towards zero, limited by N; they are the
\* highest-scoring ones: every retained member's score is >= the score of
\* every member that is not retained.
C11_RetainTruncated ==
    JustSelected =>
        /\ Len(survivors)
              = Min(Len(population), Max(2, (Len(population) * retain_ratio) \div 100))
        /\ \A a \in 1..Len(survivors), b \in NotRetained :
              scored[ScoreOf(survivors[a])][2] >= scored[ScoreOf(b)][2]

\* three cars at retain_ratio 0.9: 2.7 truncates to two retained cars, and
\* the one left out scored strictly less than a retained one
C11_Witness ==
    /\ JustSelected /\ Len(population) = 3 /\ retain_ratio = 90
    /\ Len(survivors) = 2
    /\ \E b \in NotRetained : scored[ScoreOf(survivors[1])][2] > scored[ScoreOf(b)][2]

\* the codes of a car's DNA, as the pairs Car.mutate works on
CodesOf(c) == Zip(TypesOf(CarDna(c).frame), TypesOf(CarDna(c).powertrain))

\* C14: when the mutation_rate draw succeeds for a bred child, the car that
\* evolve_population appends to the children, and so the member that enters
\* the next generation, is the car that the extra mutation returned; when the
\* draw fails the unmutated child enters.
C14_MutatedChildEnters ==
    (e_pc = "breed" /\ children # <<>> /\ mutated_dna # <<>>) =>
        CodesOf(heap[children[Len(children)]]) = mutated_dna

\* C18: every evaluation (score_car, score_population) resets a car before
\* it adds the car to the physics space, so through any sequence of
\* evaluations and generations no engine handle of a car is added to two
\* different spaces.
C18_OneSpacePerHandle ==
    \A id \in 1..Len(heap) : \A k \in 1..Len(heap[id].frame) :
        heap[id].frame[k].space # "two"

\* after the second generation the first member has been scored on its own
\* in a fresh simulation: its handles are in the space at hand, those of the
\* second member, scored with the population, in a space made before
C18_Witness ==
    /\ e_pc = "ready" /\ gen = 2 /\ Len(population) >= 2
    /\ \A k \in 1..Len(heap[population[1]].frame) :
          heap[population[1]].frame[k].space = "this"
    /\ \A k \in 1..Len(heap[population[2]].frame) :
          heap[population[2]].frame[k].space = "gone"

-----------------------------------------------------------------------------
(* Properties of power propagation (SpecPower) *)

\* C6: for a wheel position inside the chain, calculate_wheel_power returns
\* the result of the sequential reduction: totals start at (0, 10000); a
\* Cylinder adds its power; a DriveShaft multiplies both totals by its
\* efficiency; a GearSet multiplies power and divides torque by input_ratio,
\* then at the wheel position returns both totals times wheel_proportion,
\* elsewhere removes the wheel share and applies output_ratio; any other part
\* at the wheel position returns the totals as they stand. The three worked
\* examples give (50, 10000), (0, 5000) and (50, 5000).
C6_PowerReduction ==
    pw_pc = "returned" /\ pw_pos < Len(pw_chain) =>
        LET geared(tt, g) == <<FMul(tt[1], g.input_ratio), FDiv(tt[2], g.input_ratio)>>
            passed(tt, part) ==
                CASE part.class = "Cylinder" -> <<FAdd(tt[1], part.power), tt[2]>>
                  [] part.class = "DriveShaft" ->
                        <<FMul(tt[1], part.efficiency), FMul(tt[2], part.efficiency)>>
                  [] part.class = "GearSet" ->
                        LET g == geared(tt, part)
                        IN  <<FMul(FSub(g[1], FMul(g[1], part.wheel_proportion)),
                                   part.output_ratio),
                              FDiv(FSub(g[2], FMul(g[2], part.wheel_proportion)),
                                   part.output_ratio)>>
            totals[k \in 0..Len(pw_chain)] ==
                IF k = 0 THEN <<Num(0), Num(10000)>>
                ELSE passed(totals[k - 1], pw_chain[k])
            last == pw_chain[pw_pos + 1]
            expected ==
                IF last.class = "GearSet"
                THEN LET g == geared(totals[pw_pos], last)
                     IN  <<FMul(g[1], last.wheel_proportion),
                           FMul(g[2], last.wheel_proportion)>>
                ELSE totals[pw_pos + 1]
        IN  /\ <<pw_result.power, pw_result.torque>> = expected
            /\ (pw_chain = <<Cylinder(Num(50))>> /\ pw_pos = 0)
                  => <<pw_result.power, pw_result.torque>> = <<Num(50), Num(10000)>>
            /\ (pw_chain = <<DriveShaft(Frac(1, 2))>> /\ pw_pos = 0)
                  => <<pw_result.power, pw_result.torque>> = <<Num(0), Num(5000)>>
            /\ (pw_chain = <<Cylinder(Num(100)), GearSet(Num(1), Frac(1, 2), Num(1))>>
                    /\ pw_pos = 1)
                  => <<pw_result.power, pw_result.torque>> = <<Num(50), Num(5000)>>

\* the call has returned for a wheel on a GearSet that follows a Cylinder and
\* another GearSet whose ratios are not 1
C6_Witness ==
    /\ pw_pc = "returned" /\ pw_pos = 2
    /\ pw_chain = <<Cylinder(Num(100)), GearSet(Num(2), Frac(1, 4), Frac(1, 2)),
                    GearSet(Num(1), Frac(1, 2), Num(1))>>
    /\ pw_result = [power |-> Frac(75, 2), torque |-> Num(3750), via |-> "return"]

-----------------------------------------------------------------------------
(* Properties of built cars (SpecBuild) *)

\* C7: every wheel whose validated power is below 0.001 in absolute value has
\* a motor of rate 0 and max_force 0, whatever its torque, and no wheel has a
\* motor of rate 0 with a positive max_force; this holds for the engine
\* objects made at construction, by Wheel.mutate and by a reset of the car.
C7_ZeroPowerMotor ==
    b_car # <<>> =>
        /\ \A k \in 1..Len(b_car.frame_parts) :
              LET part == b_car.frame_parts[k]
              IN  part.class = "Wheel" =>
                    /\ FLt(FAbs(part.power), Frac(1, 1000)) =>
                          /\ part.physics.motor.rate = Num(0)
                          /\ part.physics.motor.max_force = Num(0)
                    /\ ~(/\ part.physics.motor.rate = Num(0)
                         /\ FGt(part.physics.motor.max_force, Num(0)))
        /\ \A k \in 1..Len(b_car.motors) :
              ~(b_car.motors[k].rate = Num(0) /\ FGt(b_car.motors[k].max_force, Num(0)))

\* a wheel of power -0.0005 and torque 100 that was built, mutated to size 80
\* and then rebuilt by a reset has a motor of rate 0 and force 0
C7_Witness ==
    /\ b_last = "reset" /\ b_car.made = 3
    /\ \E k \in 1..Len(b_car.frame_parts) :
          LET part == b_car.frame_parts[k]
          IN  /\ part.class = "Wheel"
              /\ part.power = Frac(-1, 2000) /\ part.torque = Num(100)
              /\ part.size = Num(80)
              /\ part.physics.made = 3
              /\ part.physics.motor = [rate |-> Num(0), max_force |-> Num(0)]

\* C8: Car(dna) raises, and no car exists, whenever the frame is empty, the
\* powertrain is empty, the two lists differ in length or an entry has an
\* unknown type tag; every car that was built has a non-empty frame and a
\* non-empty powertrain of the same length.
C8_BuildFails ==
    b_pc \in {"built", "error"} =>
        /\ (\/ Len(b_dna.frame) = 0
            \/ Len(b_dna.powertrain) = 0
            \/ Len(b_dna.frame) # Len(b_dna.powertrain)
            \/ \E k \in 1..Len(b_dna.frame) : b_dna.frame[k].type \notin {"R", "W"}
            \/ \E k \in 1..Len(b_dna.powertrain) :
                  b_dna.powertrain[k].type \notin {"C", "D", "G"})
              => (b_pc = "error" /\ b_err # "none" /\ b_car = <<>>)
        /\ b_pc = "built" =>
              /\ Len(b_car.frame) >= 1 /\ Len(b_car.powertrain) >= 1
              /\ Len(b_car.frame) = Len(b_car.powertrain)
              /\ Len(b_car.frame_parts) = Len(b_car.frame)

\* the build of two known frame entries over one known powertrain entry has
\* raised
C8_Witness ==
    /\ b_pc = "error" /\ b_err = "ValueError" /\ b_car = <<>>
    /\ Len(b_dna.frame) = 2 /\ Len(b_dna.powertrain) = 1
    /\ \A k \in 1..2 : b_dna.frame[k].form = "dict" /\ b_dna.frame[k].type \in {"R", "W"}
    /\ b_dna.powertrain[1].type \in {"C", "D", "G"}

\* C9: for a DNA d of two lists of the same length >= 1, each made of bare
\* codes or of parameterised entries with known tags, Car(d) is built and
\* to_dna(Car(d)) has the lengths of d and the type tag of d at every
\* position of both lists.
C9_RoundTripShape ==
    b_pc \in {"built", "error"} =>
        LET uniform(l) == \A k \in 1..Len(l) : l[k].form = l[1].form
            known == /\ \A k \in 1..Len(b_dna.frame) : b_dna.frame[k].type \in {"R", "W"}
                     /\ \A k \in 1..Len(b_dna.powertrain) :
                           b_dna.powertrain[k].type \in {"C", "D", "G"}
        IN  /\ (/\ Len(b_dna.frame) = Len(b_dna.powertrain) /\ Len(b_dna.frame) >= 1
                /\ uniform(b_dna.frame) /\ uniform(b_dna.powertrain) /\ known)
                  => b_pc = "built"
            /\ b_pc = "built" =>
                  LET d == to_dna(b_car)
                  IN  /\ Len(d.frame) = Len(b_dna.frame)
                      /\ Len(d.powertrain) = Len(b_dna.powertrain)
                      /\ \A k \in 1..Len(d.frame) : d.frame[k].type = b_dna.frame[k].type
                      /\ \A k \in 1..Len(d.powertrain) :
                            d.powertrain[k].type = b_dna.powertrain[k].type

\* a car has just been built from a frame of bare codes, wheel first, over a
\* powertrain of parameterised entries
C9_Witness ==
    /\ b_pc = "built" /\ b_last = "build"
    /\ b_dna.frame = <<Bare("W"), Bare("R")>>
    /\ b_dna.powertrain = <<DictC(Num(100)), DictG(Num(2), Frac(1, 4), Frac(1, 2))>>
    /\ to_dna(b_car).frame[1].type = "W" /\ to_dna(b_car).frame[2].type = "R"

\* C10: reset_physics leaves to_dna() as it was, however many times it is
\* called: same entries in the same order, with the same power, torque and
\* size of every wheel, length and height of every rectangle and fields of
\* every powertrain part.
C10_ResetKeepsDna == [][b_last' = "reset" => to_dna(b_car)' = to_dna(b_car)]_vars

\* a second reset has been made on a car whose rectangle now has a polygon of
\* other dimensions than its own, next to a wheel
C10_Witness ==
    /\ b_last = "reset" /\ b_car.made = 3
    /\ \E k \in 1..Len(b_car.frame_parts) :
          /\ b_car.frame_parts[k].class = "Rectangle"
          /\ b_car.frame_parts[k].polygon.length # b_car.frame_parts[k].length
    /\ \E k \in 1..Len(b_car.frame_parts) : b_car.frame_parts[k].class = "Wheel"

\* what the powertrain of the car delivers to frame slot k (1-based), validated
\* as a wheel validates its power and torque
DeliveredTo(k) ==
    LET pt == calculate_wheel_power(b_car.powertrain, k - 1)
    IN  [power |-> validate_power(pt.power), torque |-> validate_torque(pt.torque)]

\* the power and torque that the frame entry of slot k stores, validated
StoredIn(k) ==
    [power  |-> validate_power(b_dna.frame[k].power),
     torque |-> validate_torque(b_dna.frame[k].torque)]

PowerAndTorque(part) == [power |-> part.power, torque |-> part.torque]

\* C16 as claimed: every wheel of a car built from DNA, from a bare tag or
\* from a parameterised record, has the validated power and torque that
\* calculate_wheel_power gives for its slot over the car's powertrain.
C16_WheelPowerComputed ==
    b_pc = "built" =>
        \A k \in 1..Len(b_car.frame_parts) :
            b_car.frame_parts[k].class = "Wheel" =>
                PowerAndTorque(b_car.frame_parts[k]) = DeliveredTo(k)

\* C16 as amended: a wheel built from a bare tag has the validated power and
\* torque that calculate_wheel_power gives for its slot over the car's
\* powertrain; a wheel built from a parameterised record has the validated
\* power and torque that the record stores, whatever the powertrain delivers.
C16_WheelPowerByFormat ==
    b_pc = "built" =>
        \A k \in 1..Len(b_car.frame_parts) :
            b_car.frame_parts[k].class = "Wheel" =>
                PowerAndTorque(b_car.frame_parts[k])
                    = IF b_dna.frame[k].form = "str" THEN DeliveredTo(k) ELSE StoredIn(k)

\* a wheel built from a record that stores power 50 has power 50 in a slot to
\* which the powertrain delivers 100
C16_Witness ==
    /\ b_pc = "built" /\ b_last = "build"
    /\ \E k \in 1..Len(b_car.frame_parts) :
          /\ b_car.frame_parts[k].class = "Wheel"
          /\ b_dna.frame[k].form = "dict"
          /\ b_car.frame_parts[k].power = Num(50)
          /\ DeliveredTo(k).power = Num(100)

\* a bare wheel whose power comes from the powertrain: 100 from the cylinder
\* in front of it
C16_WitnessBare ==
    /\ b_pc = "built" /\ b_last = "build"
    /\ \E k \in 1..Len(b_car.frame_parts) :
          /\ b_car.frame_parts[k].class = "Wheel"
          /\ b_dna.frame[k].form = "str"
          /\ b_car.frame_parts[k].power = Num(100)

\* a DNA whose two lists have the same length >= 1 and known tags only
KnownTags(dna) ==
    /\ Len(dna.frame) = Len(dna.powertrain) /\ Len(dna.frame) >= 1
    /\ \A k \in 1..Len(dna.frame) : dna.frame[k].type \in {"R", "W"}
    /\ \A k \in 1..Len(dna.powertrain) : dna.powertrain[k].type \in {"C", "D", "G"}

\* a list that holds a bare code and a parameterised record
Mixed(l) == \E j, k \in 1..Len(l) : l[j].form = "str" /\ l[k].form = "dict"

\* C21: the builder chooses between stored parameters and random generation
\* entry by entry: a DNA of known tags whose frame or powertrain list mixes
\* bare codes and parameterised records is built, with the part of every
\* entry of the type the entry names and every parameterised powertrain
\* record read back as it was stored.
C21_MixedFormatsBuild ==
    (b_last = "build" /\ KnownTags(b_dna)
        /\ (Mixed(b_dna.frame) \/ Mixed(b_dna.powertrain))) =>
        /\ b_pc = "built"
        /\ \A k \in 1..Len(b_dna.frame) :
              /\ to_dna(b_car).frame[k].type = b_dna.frame[k].type
              /\ to_dna(b_car).powertrain[k].type = b_dna.powertrain[k].type
              /\ b_dna.powertrain[k].form = "dict" =>
                    to_dna(b_car).powertrain[k] = b_dna.powertrain[k]

\* every engine handle reachable from car c carries a stamp above old: the
\* chassis body, the (body, shape) pairs of frame, the joints, the motors and
\* what each frame part holds (body, and polygon or physics)
AllHandlesAfter(c, old) ==
    /\ c.body.made > old
    /\ \A k \in 1..Len(c.frame) : c.frame[k].body.made > old /\ c.frame[k].obj.made > old
    /\ \A k \in 1..Len(c.joints) : c.joints[k].made > old
    /\ \A k \in 1..Len(c.motors) : c.motors[k].made > old
    /\ \A k \in 1..Len(c.frame_parts) :
          /\ c.frame_parts[k].body.made > old
          /\ IF c.frame_parts[k].class = "Rectangle"
             THEN c.frame_parts[k].polygon.made > old
             ELSE c.frame_parts[k].physics.made > old

\* C23: after reset_physics no engine handle reachable from the car existed
\* before the reset: the chassis body, every (body, shape) pair of frame,
\* every joint and motor, and the body, shape and physics held by every
\* frame part are new objects.
C23_ResetReplacesHandles ==
    [][b_last' = "reset" => AllHandlesAfter(b_car', b_car.made)]_vars

\* C24: after build_from_dna and after every reset_physics the car has one
\* pivot joint and one motor per Wheel: as many joints, and as many motors,
\* as the frame has wheels; the k-th joint and the k-th motor are those of
\* the k-th wheel in frame order; and frame, frame_parts and powertrain have
\* the same length.
C24_JointAndMotorPerWheel ==
    (b_pc = "built" /\ b_last \in {"build", "reset"}) =>
        LET parts  == b_car.frame_parts
            wheels == {k \in 1..Len(parts) : parts[k].class = "Wheel"}
            nth(k) == Cardinality({j \in wheels : j <= k})
        IN  /\ Len(b_car.joints) = Cardinality(wheels)
            /\ Len(b_car.motors) = Cardinality(wheels)
            /\ \A k \in wheels :
                  /\ b_car.joints[nth(k)].of = k
                  /\ b_car.joints[nth(k)].made = parts[k].physics.made
                  /\ b_car.frame[k].obj = parts[k].physics
                  /\ b_car.motors[nth(k)].of = k
                  /\ b_car.motors[nth(k)].made = parts[k].physics.made
                  /\ b_car.motors[nth(k)].rate = parts[k].physics.motor.rate
                  /\ b_car.motors[nth(k)].max_force = parts[k].physics.motor.max_force
            /\ Len(b_car.frame) = Len(parts)
            /\ Len(parts) = Len(b_car.powertrain)

\* a car of a rectangle and then a wheel has been reset after the wheel was
\* mutated: its one joint and one motor are those of the wheel in slot 2,
\* made by the reset
C24_Witness ==
    /\ b_pc = "built" /\ b_last = "reset" /\ b_car.made = 3
    /\ Len(b_car.frame_parts) = 2
    /\ b_car.frame_parts[1].class = "Rectangle"
    /\ b_car.frame_parts[2].class = "Wheel"
    /\ b_car.frame_parts[2].size = Num(80)
    /\ Len(b_car.joints) = 1 /\ b_car.joints[1] = [made |-> 3, of |-> 2]
    /\ Len(b_car.motors) = 1 /\ b_car.motors[1].made = 3

\* C26: while a DNA whose frame and powertrain have the same length >= 1 is
\* built, every call of calculate_wheel_power the builder makes has
\* wheel_position < len(powertrain) and returns from inside the loop, at
\* i == wheel_position; the return after the loop is not taken in a build
\* that succeeds.
C26_WheelPowerCallsInRange ==
    /\ (b_last = "build" /\ Len(b_dna.frame) = Len(b_dna.powertrain)
            /\ Len(b_dna.frame) >= 1) =>
          \A n \in 1..Len(b_calls) :
              /\ b_calls[n].wheel_position < Len(b_dna.powertrain)
              /\ b_calls[n].via = "return"
    /\ (b_last = "build" /\ b_pc = "built") =>
          \A n \in 1..Len(b_calls) : b_calls[n].via = "return"

\* a car of two bare wheels over a cylinder and a gear set has been built:
\* the builder asked for the power at position 0 and at position 1, and both
\* calls returned from inside the loop
C26_Witness ==
    /\ b_last = "build" /\ b_pc = "built"
    /\ b_dna = [frame |-> <<Bare("W"), Bare("W")>>, powertrain |-> <<Bare("C"), Bare("G")>>]
    /\ b_calls = <<[wheel_position |-> 0, via |-> "return"],
                   [wheel_position |-> 1, via |-> "return"]>>

\* the return after the loop is taken when the frame is longer than the
\* powertrain: the build then raises
C26_WitnessFallback ==
    /\ b_last = "build" /\ b_pc = "error"
    /\ \E n \in 1..Len(b_calls) : b_calls[n].via = "fallback"

\* C29: the polygon of every Rectangle part has the length and the height
\* the part records, which are those its to_dna reports: after the car is
\* built, after Rectangle.mutate and after Car.reset_physics.
C29_PolygonAsRecorded ==
    b_pc = "built" =>
        \A k \in 1..Len(b_car.frame_parts) :
            b_car.frame_parts[k].class = "Rectangle" =>
                /\ b_car.frame_parts[k].polygon.length = b_car.frame_parts[k].length
                /\ b_car.frame_parts[k].polygon.height = b_car.frame_parts[k].height
                /\ rectangle_to_dna(b_car.frame_parts[k]).length
                      = b_car.frame_parts[k].polygon.length
                /\ rectangle_to_dna(b_car.frame_parts[k]).height
                      = b_car.frame_parts[k].polygon.height

\* C30: the size of every Wheel of a built car lies in [0.1, 50], after the
\* build from DNA or from_random, after any number of Wheel.mutate calls and
\* after reset_physics; in particular the size is not zero, so the motor rate
\* -power/size is never computed with a zero divisor.
C30_WheelSizeInRange ==
    b_pc = "built" =>
        \A k \in 1..Len(b_car.frame_parts) :
            b_car.frame_parts[k].class = "Wheel" =>
                /\ FLe(Frac(1, 10), b_car.frame_parts[k].size)
                /\ FLe(b_car.frame_parts[k].size, Num(50))
                /\ b_car.frame_parts[k].size # Num(0)

-----------------------------------------------------------------------------
(* Properties of Car.mutate on a built car (SpecCarMutate) *)

\* the type and the stored parameters of a DNA entry that the genome carries:
\* Cylinder power, DriveShaft efficiency, GearSet ratios and wheel
\* proportion, Rectangle length and height, Wheel size (a wheel's power and
\* torque are what the powertrain delivers)
Genes(e) == IF e.type = "W" THEN [type |-> "W", size |-> e.size] ELSE e

\* C20: a slot for which Car.mutate draws 'leave unchanged' is in the
\* mutated car's genome as it was in the parent's: the same frame and
\* powertrain type and the same stored parameters.
C20_KeptSlotUnchanged ==
    b_last = "mutate_car" =>
        \A k \in 1..Len(b_origin) :
            b_origin[k] # 0 =>
                /\ Genes(to_dna(b_car).frame[k]) = Genes(b_parent.frame[b_origin[k]])
                /\ Genes(to_dna(b_car).powertrain[k])
                      = Genes(b_parent.powertrain[b_origin[k]])

-----------------------------------------------------------------------------
(* Properties of powertrain records (SpecRecord) *)

\* C25 as stated: deserialising a powertrain record and serialising the part
\* gives the record back, for every record of type C, D or G: no field is
\* regenerated or altered.
C25_RoundTripVerbatim == d_pc = "dna" => d_out = d_rec

\* a GearSet ratio as it is read back: 0.1 when it is below 0.1
Floored(x) == IF FLt(x, Frac(1, 10)) THEN Frac(1, 10) ELSE x

\* C25 amended: deserialising a powertrain record reproduces its stored
\* fields verbatim, except that an input_ratio or output_ratio of a G record
\* that is below 0.1 is read back as 0.1: to_dna(from_dna(d)) = d for every
\* C and D record and for every G record whose two ratios are not below 0.1,
\* and the wheel_proportion of every G record is read back as stored.
C25_RoundTripFloored ==
    d_pc = "dna" =>
        /\ d_rec.type \in {"C", "D"} => d_out = d_rec
        /\ d_rec.type = "G" =>
              d_out = [d_rec EXCEPT !.input_ratio = Floored(@),
                                    !.output_ratio = Floored(@)]

\* a GearSet record with an input ratio of 0.05 and an output ratio of 2 came
\* back with 0.1 and 2, its wheel proportion of 0.05 as stored
C25_Witness ==
    /\ d_pc = "dna"
    /\ d_rec = DictG(Frac(1, 20), Frac(1, 20), Num(2))
    /\ d_out = DictG(Frac(1, 10), Frac(1, 20), Num(2))

-----------------------------------------------------------------------------
(* Properties of the validators (SpecValidate) *)

\* the default a validator falls back to and the least value it passes
DefaultOf(name) == IF name = "length" THEN Num(10) ELSE Num(5)
ThresholdOf(name) == IF name = "size" THEN Frac(1, 10) ELSE Frac(1, 2)

\* C15: _validate_dimension and _validate_size map NaN and +/-Infinity to the
\* default (10 for length, 5 for height, 5 for wheel size), values <= 0 or
\* below the threshold (0.5 for rectangles, 0.1 for wheels) to 1, values
\* above 50 to 50, and return every value from the threshold up to 50
\* unchanged; validating the result again returns it unchanged.
C15_ValidatorTable ==
    /\ v_pc = "once" =>
          /\ (IsNan(v_in) \/ IsInf(v_in)) => v_out = DefaultOf(v_name)
          /\ (~IsNan(v_in) /\ ~IsInf(v_in)) =>
                /\ (FLe(v_in, Num(0)) \/ FLt(v_in, ThresholdOf(v_name))) => v_out = Num(1)
                /\ FGt(v_in, Num(50)) => v_out = Num(50)
                /\ (FLe(ThresholdOf(v_name), v_in) /\ FLe(v_in, Num(50))) => v_out = v_in
    /\ v_pc = "twice" => v_out = validate(v_name, v_in)

\* a wheel size of 0.05, below the wheels' threshold and above zero, has been
\* validated twice and is 1
C15_Witness ==
    v_pc = "twice" /\ v_name = "size" /\ v_in = Frac(1, 20) /\ v_out = Num(1)

====
